---- MODULE Spec2Model ----
(***************************************************************************)
(* The execution engine of dmcl (src/src/stac.rs, Prog::execute): a stack  *)
(* machine over a table of instruction blocks with a normal mode and a     *)
(* side-effect ("speculative") mode entered when IfExpr pops Waiting.      *)
(* One step of the model is one iteration of the 'outer loop of execute(). *)
(* Labels, addresses and instruction indices are 0-based as in the source; *)
(* TLA+ sequences are 1-based, hence the "+ 1" in every lookup.            *)
(***************************************************************************)
EXTENDS Integers, Sequences, FiniteSets, TLC

\* ---------------------------------------------------------------- bounds
MaxProbeInt == 2
LoopLimit == 3

\* ------------------------------------------------------ program constants
MaxCycles == 1000
CONTINUE == 2147483647

\* ------------------------------------------------------------- DataVal
Waiting == <<"Waiting", 0>>
IntV(n) == <<"Integer", n>>
FloatV(n, d) == <<"Float", <<n, d>>>>
BoolV(b) == <<"Bool", b>>
StrV(s) == <<"String", s>>
CompoundV(s) == <<"Compound", s>>

is_waiting(v) == v[1] = "Waiting"
is_integer(v) == v[1] = "Integer"
is_float(v) == v[1] = "Float"
is_bool(v) == v[1] = "Bool"
is_string(v) == v[1] = "String"
is_compound(v) == v[1] = "Compound"

\* ------------------------------------------------------------ DataType
Integer == << "Integer" >>
Float == << "Float" >>
Bool == << "Bool" >>
String == << "String" >>
Array(el_typ) == << "Array", el_typ >>
Struct(struct_name) == << "Struct", struct_name >>
WaitingType == << "Waiting" >>

\* Prog.user_structs: each struct's field types and the index of each name.
\*   struct P { x: int, y: string }      struct Q { p: P, l: []P }
\*   struct Test { n1: int, n2: float, n3: float }
\*   struct A { i: int, f: float, b: bool, s: string, a: []int, q: Q }
user_structs ==
    [P |-> [types |-> << Integer, String >>, names |-> [x |-> 0, y |-> 1]],
     Q |-> [types |-> << Struct("P"), Array(Struct("P")) >>,
            names |-> [p |-> 0, l |-> 1]],
     Test |-> [types |-> << Integer, Float, Float >>,
               names |-> [n1 |-> 0, n2 |-> 1, n3 |-> 2]],
     A |-> [types |-> << Integer, Float, Bool, String, Array(Integer),
                         Struct("Q") >>,
            names |-> [i |-> 0, f |-> 1, b |-> 2, s |-> 3, a |-> 4, q |-> 5]]]

\* --------------------------------------------------------------- Instr
BinaryExpr(op) == <<"BinaryExpr", op>>
Concat == <<"Concat">>
UnaryExpr(op) == <<"UnaryExpr", op>>
LoadConst(v) == <<"LoadConst", v>>
LoadIdent(i) == <<"LoadIdent", i>>
StoreIdent(i) == <<"StoreIdent", i>>
IfExpr(if_true, if_false) == <<"IfExpr", if_true, if_false>>
Discard == <<"Discard">>
CompoundGet == <<"CompoundGet">>
CompoundSet == <<"CompoundSet">>
CompoundCreate == <<"CompoundCreate">>
Goto(label) == <<"Goto", label>>
Call(label) == <<"Call", label>>
Return == <<"Return">>
ExternCall(param_types, return_types) == <<"ExternCall", param_types, return_types>>

\* ------------------------------------------------- sequence helpers (Vec)
Last(s) == s[Len(s)]
Front(s) == SubSeq(s, 1, Len(s) - 1)
DropLast(s, n) == SubSeq(s, 1, Len(s) - n)
TakeLast(s, n) == SubSeq(s, Len(s) - n + 1, Len(s))

\* ------------------------------------------------------ numeric helpers
Abs(n) == IF n < 0 THEN -n ELSE n
Sign(n) == IF n < 0 THEN -1 ELSE IF n > 0 THEN 1 ELSE 0

\* i64 division truncates toward zero
TruncDiv(a, b) == Sign(a) * Sign(b) * (Abs(a) \div Abs(b))

RECURSIVE Gcd(_, _)
Gcd(a, b) == IF b = 0 THEN a ELSE Gcd(b, a % b)

\* f64 values are kept as exact fractions <<n, d>> in lowest terms, d > 0;
\* d = 0 stands for the IEEE results of a division by zero (inf, NaN).
Frac(n, d) ==
    IF d = 0 THEN <<Sign(n), 0>>
    ELSE LET g == Gcd(Abs(n), Abs(d))
         IN  <<Sign(d) * (n \div g), Abs(d) \div g>>


\* ------------------------------------------------------------------ JSON
\* JSON values: null, bool, int (a number written without fraction or
\* exponent), float, str, seq, map (entries << key, value >> in order).
JsonNull == << "null" >>
JsonBool(b) == << "bool", b >>
JsonInt(n) == << "int", n >>
JsonFloat(f) == << "float", f >>
JsonStr(x) == << "str", x >>
JsonSeq(els) == << "seq", els >>
JsonMap(entries) == << "map", entries >>

\* Expecting::Waiting / DataType::Waiting: a map with the one entry
\* "$waiting": true
WaitingMarker == JsonMap(<< << "$waiting", JsonBool(TRUE) >> >>)


\* =========================================================== block tables
\* Emission adds the entry block last (parser.rs, Parser::program), so the
\* entry block has the largest label and no emitted label designates it.

\* The synthetic block of an extern function: name, ExternCall, Return.
ExternBlock(name) ==
    << LoadConst(StrV(name)), ExternCall(<<>>, << Integer >>), Return >>

\* Values an external function may hand back (any DataVal, or Waiting).
ProbeVals ==
    { IntV(n) : n \in 0..MaxProbeInt } \cup
    { FloatV(1, 2), BoolV(TRUE), BoolV(FALSE), StrV("a"),
      CompoundV(<< IntV(1), IntV(2) >>), Waiting }

ArithOps == { "+", "-", "*", "/" }
RelOps == { "==", "!=", "<", "<=", ">", ">=" }

\* x := f(); y := g(); x <instr> y   (y is pushed first, x is popped first)
ProgBinary(instr) ==
    << ExternBlock("f"),
       ExternBlock("g"),
       << Call(1), Call(0), instr, StoreIdent(0) >> >>

\* -f()  /  !f()
ProgUnary(instr) ==
    << ExternBlock("f"),
       << Call(0), instr, StoreIdent(0) >> >>

\* h()[g()] = f()   (compound h, index g, value f)
ProgTernary(instr) ==
    << ExternBlock("f"),
       ExternBlock("g"),
       ExternBlock("h"),
       << Call(2), Call(1), Call(0), instr, StoreIdent(0) >> >>

\* a := 1; if f() { a = 2 } else { a = 2 }; b := 9
\* with every combination of arms (block 1, block 2, CONTINUE).
ProgIf(if_true, if_false) ==
    << ExternBlock("f"),
       << LoadConst(IntV(2)), StoreIdent(0) >>,
       << LoadConst(IntV(2)), StoreIdent(0) >>,
       << LoadConst(IntV(1)), StoreIdent(0),
          Call(0), IfExpr(if_true, if_false),
          LoadConst(IntV(9)), StoreIdent(1) >> >>

\* A conditional whose arms contain a nested conditional, a Goto and a
\* Call of a function; block 6 is called before the conditional and is
\* reachable from neither arm.
ProgNested ==
    << ExternBlock("f"),
       << LoadConst(IntV(1)), StoreIdent(3), LoadIdent(3), Return >>,
       << LoadConst(IntV(2)), StoreIdent(1) >>,
       << LoadIdent(0), IfExpr(2, CONTINUE),
          LoadConst(IntV(3)), StoreIdent(1), Goto(5) >>,
       << Call(1), StoreIdent(2) >>,
       << LoadConst(IntV(7)), StoreIdent(4) >>,
       << LoadConst(IntV(8)), StoreIdent(5) >>,
       << Call(0), StoreIdent(0), Call(6),
          LoadConst(IntV(1)), StoreIdent(1),
          LoadIdent(0), IfExpr(3, 4),
          LoadConst(IntV(9)), StoreIdent(6) >> >>

\* p := 0; q := f(); while p < limit + q { p = p + 1 }; r := p
\* block 1 evaluates the condition, block 2 is the loop body.
ProgWhile(limit) ==
    << ExternBlock("f"),
       << LoadIdent(1), LoadConst(IntV(limit)), BinaryExpr("+"),
          LoadIdent(0), BinaryExpr("<"), IfExpr(2, CONTINUE) >>,
       << LoadConst(IntV(1)), LoadIdent(0), BinaryExpr("+"), StoreIdent(0),
          Goto(1) >>,
       << LoadConst(IntV(0)), StoreIdent(0),
          Call(0), StoreIdent(1),
          Goto(1),
          LoadIdent(0), StoreIdent(2) >> >>

\* while true { }  : never leaves the loop
ProgForever ==
    << << LoadConst(BoolV(TRUE)), IfExpr(1, CONTINUE) >>,
       << Goto(0) >>,
       << Goto(0), LoadConst(IntV(1)), StoreIdent(0) >> >>

\* func sub(a, b) (int) { return a - b }  r := sub(9, 10);  sub(1, 2);
\* followed by an explicit Return in the entry block.
ProgFunc ==
    << << StoreIdent(1), StoreIdent(0),
          LoadIdent(1), LoadIdent(0), BinaryExpr("-"), Return,
          Return >>,
       << LoadConst(IntV(9)), LoadConst(IntV(10)), Call(0), StoreIdent(2),
          LoadConst(IntV(1)), LoadConst(IntV(2)), Call(0), Discard,
          Return,
          LoadConst(IntV(5)), StoreIdent(2) >> >>

\* A call of an extern function whose name the host never registered.
ProgUnknown ==
    << ExternBlock("u"),
       << Call(0), StoreIdent(0) >> >>

\* func t() (int) { if true { return 2; } return 1; }   b := t();
\* block 0 is the arm of the conditional, block 1 the body of t.
ProgEarlyReturn ==
    << << LoadConst(IntV(2)), Return >>,
       << LoadConst(BoolV(TRUE)), IfExpr(0, CONTINUE),
          LoadConst(IntV(1)), Return >>,
       << Call(1), StoreIdent(0) >> >>

\* AssignStruct::emit: the struct, the index of the field, the expression,
\* CompoundSet.
EmitAssignStruct(id, field, expr) ==
    << LoadIdent(id.addr),
       LoadConst(IntV(user_structs[id.data_type[2]].names[field])) >>
    \o expr \o << CompoundSet >>

\* p := Test{n1: 5, n2: 6.0};  p.n1 = 7;  q := 1;
\* the statements built as ast values (the parser has no rule for the
\* second one) and emitted into the entry block.
ProgAssignStruct ==
    << << LoadConst(CompoundV(<< IntV(5), FloatV(6, 1), FloatV(0, 1) >>)),
          StoreIdent(0) >>
          \o EmitAssignStruct([addr |-> 0, data_type |-> Struct("Test")],
                              "n1", << LoadConst(IntV(7)) >>)
          \o << LoadConst(IntV(1)), StoreIdent(1) >> >>

\* A block table with an instruction the engine cannot execute: an address
\* or a label outside the tables, or an operand missing from the stack.
ProgBad(instr) ==
    << << LoadConst(IntV(1)), StoreIdent(0) >>,
       << LoadConst(BoolV(TRUE)), instr, LoadConst(IntV(1)), StoreIdent(0) >> >>

\* a := f(); if a == 0 { b = g() }; c := 9
\* the call of g is reachable only from the arm of the conditional.
ProgArmExtern ==
    << ExternBlock("f"),
       ExternBlock("g"),
       << Call(1), StoreIdent(1) >>,
       << Call(0), StoreIdent(0),
          LoadConst(IntV(0)), LoadIdent(0), BinaryExpr("=="),
          IfExpr(2, CONTINUE),
          LoadConst(IntV(9)), StoreIdent(2) >> >>

\* func extern k(a: int, b: string) (int, int);  k(1, "a") called with a
\* value already on the operand stack; the results are stored afterwards.
ProgParams ==
    << << LoadConst(StrV("k")),
          ExternCall(<< Integer, String >>, << Integer, Integer >>),
          Return >>,
       << LoadConst(IntV(7)),
          LoadConst(IntV(1)), LoadConst(StrV("a")), Call(0),
          StoreIdent(0), StoreIdent(1), StoreIdent(2) >> >>

\* func w() { f() }   w(); g(); w(); f();
\* f is invoked from two call sites, one of them twice, with g in between.
ProgCalls ==
    << ExternBlock("f"),
       ExternBlock("g"),
       << Call(0), Discard >>,
       << Call(2), Call(1), Discard, Call(2), Call(0), Discard >> >>

\* func extern e(a: typ) (typ);  r := e(val)
\* e is served over HTTP by a provider that sends its parameters back.
ProgEcho(typ, val) ==
    << << LoadConst(StrV("e")), ExternCall(<< typ >>, << typ >>), Return >>,
       << LoadConst(val), Call(0), StoreIdent(0) >> >>

\* A value of struct P and one of struct Q.
ValP(n, s) == CompoundV(<< IntV(n), StrV(s) >>)
ValQ == CompoundV(<< ValP(1, "a"), CompoundV(<< ValP(2, ""), ValP(0, "a") >>) >>)

\* Parameters with the static type recorded for them: values of the type,
\* Waiting in place of a value or inside one, and a value of another type.
EchoCases ==
    { << Integer, IntV(n) >> : n \in (0 - 1)..MaxProbeInt }
    \cup
    { << Float, << "Float", Frac(n, d) >> >> :
         n \in { 0 - 1, 0, 1, 3 }, d \in { 0, 1, 2 } }
    \cup
    { << Bool, BoolV(b) >> : b \in BOOLEAN }
    \cup
    { << String, StrV(x) >> : x \in { "", "a", "$waiting" } }
    \cup
    { << Array(Integer), CompoundV(<<>>) >>,
      << Array(Integer), CompoundV(<< IntV(1), IntV(2) >>) >>,
      << Array(Array(String)), CompoundV(<< CompoundV(<< StrV("a") >>), CompoundV(<<>>) >>) >>,
      << Array(Float), CompoundV(<< FloatV(1, 2), FloatV(1, 0) >>) >>,
      << Struct("P"), ValP(1, "a") >>,
      << Struct("Q"), ValQ >>,
      << Array(Struct("Q")), CompoundV(<< ValQ >>) >> }
    \cup
    { << t, Waiting >> :
         t \in { Integer, Float, Bool, String, Array(Integer), Struct("P"),
                 WaitingType } }
    \cup
    { << Array(Integer), CompoundV(<< IntV(1), Waiting >>) >>,
      << Struct("P"), CompoundV(<< Waiting, StrV("a") >>) >>,
      << Integer, StrV("a") >>,
      << Struct("P"), CompoundV(<< IntV(1) >>) >>,
      << Struct("R"), CompoundV(<<>>) >> }

\* func extern r() (types);  a, b := r()
\* r is served over HTTP by a provider that answers with a fixed body.
ProgRespond(types) ==
    << << LoadConst(StrV("r")), ExternCall(<<>>, types), Return >>,
       << Call(0) >> \o [k \in 1..Len(types) |-> StoreIdent(k - 1)] >>

\* The JSON objects of a value of struct P.
JsonP(x, y) == JsonMap(<< << "x", x >>, << "y", y >> >>)

\* Return types with a body carrying the Waiting marker in place of a
\* value, of an array element or of the value of a struct field.
MarkerCases ==
    { << << t >>, JsonSeq(<< WaitingMarker >>) >> :
         t \in { Integer, Float, Bool, String, Array(Integer), Struct("P"),
                 Array(Struct("P")), Struct("Q") } }
    \cup
    { << << Array(Integer) >>, JsonSeq(<< JsonSeq(<< JsonInt(1), WaitingMarker >>) >>) >>,
      << << Array(String) >>, JsonSeq(<< JsonSeq(<< WaitingMarker, WaitingMarker >>) >>) >>,
      << << Struct("P") >>, JsonSeq(<< JsonP(WaitingMarker, JsonStr("a")) >>) >>,
      << << Struct("P") >>, JsonSeq(<< JsonP(JsonInt(1), WaitingMarker) >>) >>,
      << << Struct("P") >>,
         JsonSeq(<< JsonMap(<< << "y", WaitingMarker >>, << "x", JsonInt(2) >> >>) >>) >>,
      << << Struct("Q") >>,
         JsonSeq(<< JsonMap(<< << "p", WaitingMarker >>,
                               << "l", JsonSeq(<< WaitingMarker,
                                                  JsonP(JsonInt(1), JsonStr("a")) >>) >> >>) >>) >>,
      << << Integer, String >>, JsonSeq(<< WaitingMarker, JsonStr("a") >>) >>,
      << << Integer, String >>, JsonSeq(<< JsonInt(1), WaitingMarker >>) >> }

\* Return types with a body that carries a value for each of them.
PlainCases ==
    { << << Integer >>, JsonSeq(<< JsonInt(1) >>) >>,
      << << Float >>, JsonSeq(<< JsonInt(1) >>) >>,
      << << Float >>, JsonSeq(<< JsonFloat(<< 3, 2 >>) >>) >>,
      << << Bool >>, JsonSeq(<< JsonBool(TRUE) >>) >>,
      << << String >>, JsonSeq(<< JsonStr("a") >>) >>,
      << << Array(Integer) >>, JsonSeq(<< JsonSeq(<< JsonInt(1), JsonInt(2) >>) >>) >>,
      << << Struct("P") >>, JsonSeq(<< JsonP(JsonInt(1), JsonStr("a")) >>) >>,
      << << Integer, String >>, JsonSeq(<< JsonInt(1), JsonStr("a") >>) >> }

\* Return types with a body that does not fit them: too few or too many
\* elements, a value of another JSON kind, a struct object without one of
\* its fields or with a key of its own, a body that is no array.
MalformedCases ==
    { << << Integer >>, JsonSeq(<<>>) >>,
      << << Integer, String >>, JsonSeq(<< JsonInt(1) >>) >>,
      << << Integer >>, JsonSeq(<< JsonInt(1), JsonInt(2) >>) >>,
      << << Integer >>, JsonSeq(<< JsonStr("a") >>) >>,
      << << Integer >>, JsonSeq(<< JsonBool(TRUE) >>) >>,
      << << Integer >>, JsonSeq(<< JsonNull >>) >>,
      << << Integer >>, JsonSeq(<< JsonSeq(<< JsonInt(1) >>) >>) >>,
      << << Integer >>, JsonSeq(<< JsonP(JsonInt(1), JsonStr("a")) >>) >>,
      << << Integer >>, JsonSeq(<< JsonFloat(<< 3, 2 >>) >>) >>,
      << << String >>, JsonSeq(<< JsonInt(1) >>) >>,
      << << Bool >>, JsonSeq(<< JsonStr("a") >>) >>,
      << << Array(Integer) >>, JsonSeq(<< JsonInt(1) >>) >>,
      << << Array(Integer) >>, JsonSeq(<< JsonSeq(<< JsonInt(1), JsonStr("a") >>) >>) >>,
      << << Struct("P") >>, JsonSeq(<< JsonMap(<< << "x", JsonInt(1) >> >>) >>) >>,
      << << Struct("P") >>, JsonSeq(<< JsonMap(<<>>) >>) >>,
      << << Struct("P") >>, JsonSeq(<< JsonP(JsonStr("a"), JsonStr("a")) >>) >>,
      << << Struct("P") >>,
         JsonSeq(<< JsonMap(<< << "x", JsonInt(1) >>, << "y", JsonStr("a") >>,
                               << "z", JsonInt(2) >> >>) >>) >>,
      << << Struct("P") >>, JsonSeq(<< JsonSeq(<< JsonInt(1), JsonStr("a") >>) >>) >>,
      << << Struct("P") >>,
         JsonSeq(<< JsonMap(<< << "$waiting", JsonBool(FALSE) >> >>) >>) >>,
      << << Integer >>,
         JsonSeq(<< JsonMap(<< << "$waiting", JsonBool(FALSE) >> >>) >>) >>,
      << << Integer >>, JsonSeq(<< JsonMap(<<>>) >>) >>,
      << << Integer >>, JsonInt(1) >>,
      << << Integer >>, WaitingMarker >>,
      << <<>>, JsonSeq(<<>>) >> }

NoRets == [f |-> Waiting, g |-> Waiting, h |-> Waiting]

\* One run of execute(): a block table, the number of allocated variables
\* and what the registered external functions f, g and h return.
Configs ==
    { [code |-> ProgBinary(BinaryExpr(op)), nvars |-> 1,
       rets |-> [f |-> x, g |-> y, h |-> Waiting]] :
         op \in ArithOps \cup RelOps \cup {"&&"}, x \in ProbeVals, y \in ProbeVals }
    \cup
    { [code |-> ProgBinary(Concat), nvars |-> 1,
       rets |-> [f |-> x, g |-> y, h |-> Waiting]] :
         x \in ProbeVals, y \in ProbeVals }
    \cup
    { [code |-> ProgBinary(CompoundGet), nvars |-> 1,
       rets |-> [f |-> x, g |-> y, h |-> Waiting]] :
         x \in ProbeVals, y \in ProbeVals }
    \cup
    { [code |-> ProgUnary(i), nvars |-> 1,
       rets |-> [f |-> x, g |-> Waiting, h |-> Waiting]] :
         i \in { UnaryExpr("-"), UnaryExpr("!"), UnaryExpr("+"), CompoundCreate },
         x \in ProbeVals }
    \cup
    { [code |-> ProgTernary(CompoundSet), nvars |-> 1,
       rets |-> [f |-> x, g |-> y, h |-> z]] :
         x \in ProbeVals, y \in ProbeVals, z \in ProbeVals }
    \cup
    { [code |-> ProgIf(t, e), nvars |-> 2,
       rets |-> [f |-> x, g |-> Waiting, h |-> Waiting]] :
         t \in {1, 2, CONTINUE}, e \in {1, 2, CONTINUE}, x \in ProbeVals }
    \cup
    { [code |-> ProgNested, nvars |-> 7,
       rets |-> [f |-> x, g |-> Waiting, h |-> Waiting]] : x \in ProbeVals }
    \cup
    { [code |-> ProgWhile(LoopLimit), nvars |-> 3,
       rets |-> [f |-> x, g |-> Waiting, h |-> Waiting]] : x \in ProbeVals }
    \cup
    { [code |-> c, nvars |-> 3, rets |-> NoRets] :
         c \in { ProgForever, ProgFunc, ProgUnknown, ProgAssignStruct,
                 ProgEarlyReturn,
                 \* "a" + "b" with Concat: "b" is pushed first
                 << << LoadConst(StrV("b")), LoadConst(StrV("a")), Concat,
                       StoreIdent(0) >> >> } }
    \cup
    \* func w() { r := 7 + (if f() { if false { q = 0 } else { p = 3 };
    \*                               return; p = 0 }) }   w(); q = 9;
    \* a conditional inside a called block, entered with a value pending on
    \* the operand stack, whose arm holds a conditional with two arms and
    \* an explicit Return.
    { [code |-> << ExternBlock("f"),
                   << LoadConst(BoolV(FALSE)), IfExpr(2, 3), Return,
                      LoadConst(IntV(0)), StoreIdent(0) >>,
                   << LoadConst(IntV(0)), StoreIdent(1) >>,
                   << LoadConst(IntV(3)), StoreIdent(0) >>,
                   << LoadConst(IntV(7)), Call(0), IfExpr(1, CONTINUE),
                      StoreIdent(2) >>,
                   << Call(4), LoadConst(IntV(9)), StoreIdent(1) >> >>,
       nvars |-> 3,
       rets |-> [f |-> x, g |-> Waiting, h |-> Waiting]] :
         x \in { Waiting, BoolV(TRUE), BoolV(FALSE) } }
    \cup
    { [code |-> ProgArmExtern, nvars |-> 3,
       rets |-> [f |-> x, g |-> y, h |-> Waiting]] :
         x \in ProbeVals, y \in { IntV(1), Waiting } }
    \cup
    { [code |-> ProgParams, nvars |-> 3,
       rets |-> [f |-> Waiting, g |-> x, h |-> y]] :
         x \in ProbeVals, y \in ProbeVals }
    \cup
    { [code |-> ProgEcho(c[1], c[2]), nvars |-> 1, rets |-> NoRets] :
         c \in EchoCases }
    \cup
    { [code |-> ProgRespond(c[1]), nvars |-> 2,
       rets |-> [f |-> Waiting, g |-> Waiting, h |-> Waiting, r |-> c[2]]] :
         c \in MarkerCases \cup PlainCases \cup MalformedCases }
    \cup
    { [code |-> ProgCalls, nvars |-> 1,
       rets |-> [f |-> x, g |-> Waiting, h |-> Waiting]] : x \in ProbeVals }
    \cup
    { [code |-> ProgBad(i), nvars |-> 1, rets |-> NoRets] :
         i \in { StoreIdent(1), LoadIdent(1), Goto(2), Call(2), IfExpr(2, 2),
                 ExternCall(<<>>, <<>>), ExternCall(<< Integer, Integer >>, <<>>),
                 Discard, BinaryExpr("+"), Concat, CompoundGet, CompoundSet } }

\* ================================================================= state
VARIABLES
    code,                     \* Prog.code
    entrypoint,               \* Prog.entrypoint
    external_functions,       \* Prog.external_functions: name -> returned values
    eval_stack,               \* Prog.eval_stack
    variables,                \* Prog.variables
    ip,                       \* Prog.ip
    call_stack,               \* Prog.call_stack
    cycles,                   \* Prog.cycles
    evaluating_side_effects,  \* Prog.evaluating_side_effects
    blocks_to_eval,           \* Prog.blocks_to_eval
    extern_func_call_count,   \* Prog.extern_func_call_count (absent = 0)
    status,                   \* "running", "done" (execute returned), "panic"
    extern_log,               \* history: the invocations handed to the registry
    sweep,                    \* history: the last entry into side-effect mode
    xfers,                    \* history: the transfers that have not returned yet
    prev,                     \* history: the state before the last step
    parser,                   \* Parser: lexer, cur_scope and the emission so far
    user_functions            \* Prog.user_functions: name -> label, params, returns

vars == << code, entrypoint, external_functions, eval_stack, variables, ip,
           call_stack, cycles, evaluating_side_effects, blocks_to_eval,
           extern_func_call_count, status, extern_log, sweep, xfers, prev,
           parser, user_functions >>

ExternNames == { "f", "g", "h", "k", "e", "r", "u" }

\* The names registered by add_http_extern; the others are closures the
\* host inserted into the registry itself.
HttpExterns == { "e", "r" }

NoInstr == << "None" >>

NoSweep == [active |-> FALSE, at |-> <<0, 0>>, if_true |-> 0, if_false |-> 0,
            variables |-> <<>>, eval_stack |-> <<>>, call_stack |-> <<>>,
            extern_log |-> <<>>, extern_func_call_count |-> <<>>,
            entered |-> <<>>]

\* ------------------------------------------------------ source programs
\* The parser's input, one element per statement head: the tokens up to
\* the next ';', '{' or '}'.  Expressions are the ast nodes the parser
\* builds for them (Const, Ident, Arith, ArrayLiteral, ArrayIndex,
\* StructLiteral, StructAccess, FuncCall).  The struct declarations of a
\* program are the entries of user_structs.
Programs ==
    LET Num(n) == << "Const", IntV(n), Integer >>
        Flt(n, d) == << "Const", FloatV(n, d), Float >>
        True == << "Const", BoolV(TRUE), Bool >>
        Str(x) == << "Const", StrV(x), String >>
        Id(name) == << "Ident", name >>
        Arith(op, x, y) == << "Arith", op, x, y >>
        ArrayLiteral(values) == << "ArrayLiteral", values >>
        ArrayIndex(name, index) == << "ArrayIndex", name, index >>
        StructLiteral(strct, values) == << "StructLiteral", strct, values >>
        StructAccess(expr, field) == << "StructAccess", expr, field >>
        FuncCall(func, params) == << "FuncCall", func, params >>
        Decl(name, expr) == << "DeclAssign", name, expr >>
        Assign(name, expr) == << "Assign", name, expr >>
        AssignArray(name, index, expr) == << "AssignArray", name, index, expr >>
        Ret(values) == << "Return", values >>
        If(expr) == << "If", expr >>
        Else == << "Else" >>
        While(expr) == << "While", expr >>
        Func(name, params, returns) == << "Func", name, params, returns >>
        Extern(name, params, returns) == << "ExternFunc", name, params, returns >>
        Open == << "{" >>
        Close == << "}" >>
    IN
    [ \* p := 0; q := 1; while p < 200 { t := p + q; q = p; p = t; } r := p;
      fib |-> << Decl("p", Num(0)), Decl("q", Num(1)),
                 While(Arith("<", Id("p"), Num(200))),
                     Decl("t", Arith("+", Id("p"), Id("q"))),
                     Assign("q", Id("p")), Assign("p", Id("t")),
                 Close,
                 Decl("r", Id("p")) >>,
      \* p := 5; q := 6; if true { p := 7; q := 6.0; } r := p;
      scopes |-> << Decl("p", Num(5)), Decl("q", Num(6)),
                    If(True), Decl("p", Num(7)), Decl("q", Flt(6, 1)), Close,
                    Decl("r", Id("p")) >>,
      \* p := 5; if true { p = 7; s := p; { p := p + 1; p = 0; } t := p; } r := p;
      nested |-> << Decl("p", Num(5)),
                    If(True), Assign("p", Num(7)), Decl("s", Id("p")),
                        Open, Decl("p", Arith("+", Id("p"), Num(1))),
                              Assign("p", Num(0)), Close,
                        Decl("t", Id("p")),
                    Close,
                    Decl("r", Id("p")) >>,
      \* p := 1; if p < 1 { p := 2; } else { q := p; p = 3; } r := p;
      arms |-> << Decl("p", Num(1)),
                  If(Arith("<", Id("p"), Num(1))), Decl("p", Num(2)),
                  Else, Decl("q", Id("p")), Assign("p", Num(3)), Close,
                  Decl("r", Id("p")) >>,
      \* p := 1; p := 2; r := p;
      twice |-> << Decl("p", Num(1)), Decl("p", Num(2)), Decl("r", Id("p")) >>,
      \* p := 1; { q := 1; q := "s"; r := q; }
      twice_inner |-> << Decl("p", Num(1)),
                         Open, Decl("q", Num(1)), Decl("q", Str("s")),
                               Decl("r", Id("q")), Close >>,
      \* p = 1;
      unknown |-> << Assign("p", Num(1)) >>,
      \* func rand() (int) { p := 4; return p; }  p := rand(); rand();
      \* func test() () { idk := 5; }  test();
      \* func huh(test: int) (int) { test = test + 1; return test; }
      \* q := huh(6);
      \* func sub(a: int, b: int) (int) { return a - b; }
      \* r := sub(9, 10);  s := sub(r, 5) + 1;
      \* func two() (int, int) { return 1 2; }  two();
      functions |-> << Func("rand", <<>>, << Integer >>),
                           Decl("p", Num(4)), Ret(<< Id("p") >>), Close,
                       Decl("p", FuncCall("rand", <<>>)),
                       FuncCall("rand", <<>>),
                       Func("test", <<>>, <<>>), Decl("idk", Num(5)), Close,
                       FuncCall("test", <<>>),
                       Func("huh", << << "test", Integer >> >>, << Integer >>),
                           Assign("test", Arith("+", Id("test"), Num(1))),
                           Ret(<< Id("test") >>), Close,
                       Decl("q", FuncCall("huh", << Num(6) >>)),
                       Func("sub", << << "a", Integer >>, << "b", Integer >> >>,
                            << Integer >>),
                           Ret(<< Arith("-", Id("a"), Id("b")) >>), Close,
                       Decl("r", FuncCall("sub", << Num(9), Num(10) >>)),
                       Decl("s", Arith("+", FuncCall("sub", << Id("r"), Num(5) >>),
                                       Num(1))),
                       Func("two", <<>>, << Integer, Integer >>),
                           Ret(<< Num(1), Num(2) >>), Close,
                       FuncCall("two", <<>>) >>,
      \* func f() (int) { x := 1; }  p := f();
      no_return |-> << Func("f", <<>>, << Integer >>), Decl("x", Num(1)), Close,
                       Decl("p", FuncCall("f", <<>>)) >>,
      \* func h() () { return 5; }  h(); r := 1;
      extra_return |-> << Func("h", <<>>, <<>>), Ret(<< Num(5) >>), Close,
                          FuncCall("h", <<>>),
                          Decl("r", Num(1)) >>,
      \* func g() (int, int) { return 1; }  g(); r := 1;
      short_return |-> << Func("g", <<>>, << Integer, Integer >>),
                              Ret(<< Num(1) >>), Close,
                          FuncCall("g", <<>>),
                          Decl("r", Num(1)) >>,
      \* func t() (int) { p := 1; if p == 1 { return 2; } return p; }  b := t();
      early_return |-> << Func("t", <<>>, << Integer >>),
                              Decl("p", Num(1)),
                              If(Arith("==", Id("p"), Num(1))),
                                  Ret(<< Num(2) >>), Close,
                              Ret(<< Id("p") >>), Close,
                          Decl("b", FuncCall("t", <<>>)) >>,
      \* func extern f(a: int) (int);  p := f(1);
      extern |-> << Extern("f", << Integer >>, << Integer >>),
                    Decl("p", FuncCall("f", << Num(1) >>)) >>,
      \* p := 5; q := [2, 2, 3, p]; q[0] = 1; p = q[0];
      arrays |-> << Decl("p", Num(5)),
                    Decl("q", ArrayLiteral(<< Num(2), Num(2), Num(3), Id("p") >>)),
                    AssignArray("q", Num(0), Num(1)),
                    Assign("p", ArrayIndex("q", Num(0))) >>,
      \* q := [1, 2]; r := q; i := 1; q[i] = q[0] + 4; s := q[1]; t := r[1];
      alias |-> << Decl("q", ArrayLiteral(<< Num(1), Num(2) >>)),
                   Decl("r", Id("q")),
                   Decl("i", Num(1)),
                   AssignArray("q", Id("i"), Arith("+", ArrayIndex("q", Num(0)),
                                                   Num(4))),
                   Decl("s", ArrayIndex("q", Num(1))),
                   Decl("t", ArrayIndex("r", Num(1))) >>,
      \* q := [1, 2]; q[2] = 3;
      out_of_range |-> << Decl("q", ArrayLiteral(<< Num(1), Num(2) >>)),
                          AssignArray("q", Num(2), Num(3)) >>,
      \* p := Test{n1: 5, n2: 6.0}; q := p.n1; r := p.n2; w := p.n3;
      structs |-> << Decl("p", StructLiteral("Test", << << "n1", Num(5) >>,
                                                        << "n2", Flt(6, 1) >> >>)),
                     Decl("q", StructAccess(Id("p"), "n1")),
                     Decl("r", StructAccess(Id("p"), "n2")),
                     Decl("w", StructAccess(Id("p"), "n3")) >>,
      \* a := A{s: "a", b: true}; b := a.s; c := a.q; d := c.l; e := a.i;
      defaults |-> << Decl("a", StructLiteral("A", << << "s", Str("a") >>,
                                                      << "b", True >> >>)),
                      Decl("b", StructAccess(Id("a"), "s")),
                      Decl("c", StructAccess(Id("a"), "q")),
                      Decl("d", StructAccess(Id("c"), "l")),
                      Decl("e", StructAccess(Id("a"), "i")) >>,
      \* p := P{z: 1};
      no_field |-> << Decl("p", StructLiteral("P", << << "z", Num(1) >> >>)) >>,
      \* a := 7 - 2; b := 7 / 2; c := 2 < 7; d := 7 <= 2; e := 7 > 2;
      \* f := 2 >= 7; g := 7.5 - 2.0; h := 1.0 / 4.0; i := 2.5 < 2.0;
      \* j := a - b - 1;
      operands |-> << Decl("a", Arith("-", Num(7), Num(2))),
                      Decl("b", Arith("/", Num(7), Num(2))),
                      Decl("c", Arith("<", Num(2), Num(7))),
                      Decl("d", Arith("<=", Num(7), Num(2))),
                      Decl("e", Arith(">", Num(7), Num(2))),
                      Decl("f", Arith(">=", Num(2), Num(7))),
                      Decl("g", Arith("-", Flt(15, 2), Flt(2, 1))),
                      Decl("h", Arith("/", Flt(1, 1), Flt(4, 1))),
                      Decl("i", Arith("<", Flt(5, 2), Flt(2, 1))),
                      Decl("j", Arith("-", Arith("-", Id("a"), Id("b")),
                                      Num(1))) >> ]

\* i := 0; n := 0; while i < limit { n = n + 1; i = i + 1; } r := n;
CountTo(limit) ==
    << << "DeclAssign", "i", << "Const", IntV(0), Integer >> >>,
       << "DeclAssign", "n", << "Const", IntV(0), Integer >> >>,
       << "While", << "Arith", "<", << "Ident", "i" >>,
                      << "Const", IntV(limit), Integer >> >> >>,
           << "Assign", "n", << "Arith", "+", << "Ident", "n" >>,
                                << "Const", IntV(1), Integer >> >> >>,
           << "Assign", "i", << "Arith", "+", << "Ident", "i" >>,
                                << "Const", IntV(1), Integer >> >> >>,
       << "}" >>,
       << "DeclAssign", "r", << "Ident", "n" >> >> >>

\* Parser::new: the global scope, an empty block under construction.  The
\* fields src, last, decls and calls are history: the whole input, the last
\* statement head parsed, every declaration made so far (for a parameter,
\* its function and position), and for every call statement the indices
\* of its first instruction and of the instruction after it in its block.
NewParser(src) ==
    [lexer |-> src, cur_scope |-> << <<>> >>, open |-> <<>>, block |-> <<>>,
     src |-> src, decls |-> <<>>, calls |-> <<>>,
     last |-> [kind |-> "none", name |-> "", addr |-> 0, cur_scope |-> <<>>,
               variables |-> <<>>, emitted |-> 0]]

\* Prog::new and the registry filled by the host; then either a block table
\* built by hand (allocate_var for every declaration; the first statement
\* of execute(): ip = (entrypoint, 0)), or a source text handed to
\* Parser::new.
Init ==
    /\ eval_stack = <<>>
    /\ call_stack = <<>>
    /\ cycles = 0
    /\ evaluating_side_effects = FALSE
    /\ blocks_to_eval = <<>>
    /\ extern_func_call_count = [n \in ExternNames |-> 0]
    /\ extern_log = <<>>
    /\ sweep = NoSweep
    /\ xfers = <<>>
    /\ prev = [kind |-> "init", ip |-> <<0, 0>>, instr |-> NoInstr,
               eval_stack |-> <<>>, call_stack |-> <<>>, variables |-> <<>>,
               evaluating_side_effects |-> FALSE, blocks_to_eval |-> <<>>,
               cycles |-> 0, xfers |-> <<>>,
               extern_func_call_count |-> [n \in ExternNames |-> 0],
               extern_log |-> <<>>]
    /\ user_functions = <<>>
    /\ \/ \E c \in Configs :
            /\ code = c.code
            /\ entrypoint = Len(c.code) - 1
            /\ external_functions =
                   [n \in {"f", "g", "h", "k", "e", "r"} |->
                       IF n = "k" THEN << c.rets["g"], c.rets["h"] >>
                       ELSE IF n \in HttpExterns
                       THEN IF n \in DOMAIN c.rets THEN c.rets[n] ELSE <<>>
                       ELSE << c.rets[n] >>]
            /\ variables = [a \in 1..c.nvars |-> BoolV(FALSE)]
            /\ ip = << Len(c.code) - 1, 0 >>
            /\ status = "running"
            /\ parser = NewParser(<<>>)
       \/ \E src \in { Programs[n] : n \in DOMAIN Programs }
                       \cup { CountTo(n) : n \in 0..LoopLimit } :
            /\ code = <<>>
            /\ entrypoint = 0
            /\ external_functions = [n \in {"f"} |-> << IntV(MaxProbeInt) >>]
            /\ variables = <<>>
            /\ ip = << 0, 0 >>
            /\ status = "parsing"
            /\ parser = NewParser(src)

\* ================================================================= fetch
Running == status = "running"

Blk(b) == code[b + 1]

\* self.code[self.ip.0] is an index into the block table
ValidBlock(b) == b >= 0 /\ b < Len(code)

AtEnd == ip[2] >= Len(Blk(ip[1]))

\* Mutant: falling off the end of a block fetches no Return.
CurInstrNoImplicitReturn == IF AtEnd THEN Discard ELSE Blk(ip[1])[ip[2] + 1]

\* The instruction the loop fetches: falling off a block that is not the
\* entry block fetches an implicit Return.
CurInstr == IF AtEnd THEN Return ELSE Blk(ip[1])[ip[2] + 1]

Snap(kind, instr) ==
    [kind |-> kind, ip |-> ip, instr |-> instr,
     eval_stack |-> eval_stack, call_stack |-> call_stack,
     variables |-> variables,
     evaluating_side_effects |-> evaluating_side_effects,
     blocks_to_eval |-> blocks_to_eval, cycles |-> cycles, xfers |-> xfers,
     extern_func_call_count |-> extern_func_call_count,
     extern_log |-> extern_log]

\* Mutant: the ceiling test is made before the counter is incremented.
BelowCeilingLate == cycles <= MaxCycles

\* The loop body runs an instruction only while the step counter, once
\* incremented, does not exceed the ceiling.
BelowCeiling == cycles + 1 <= MaxCycles

\* Mutant: the mode flag is not consulted.
InNormalModeAlways == TRUE

\* if self.evaluating_side_effects { ... } else { ... }
InNormalMode == ~evaluating_side_effects

Fetched(kind) ==
    /\ Running
    /\ ValidBlock(ip[1])
    /\ ~(AtEnd /\ ip[1] = entrypoint)
    /\ BelowCeiling
    /\ CurInstr[1] = kind

NormalStep(kind) == Fetched(kind) /\ InNormalMode
SweepStep(kind) == Fetched(kind) /\ evaluating_side_effects /\ ~AtEnd

\* self.ip.1 += 1 at the bottom of the loop
Advance(p) == << p[1], p[2] + 1 >>

\* A panic unwinds out of execute(): the run is over and nothing of the
\* interrupted instruction is kept.
Panic(kind) ==
    /\ status' = "panic"
    /\ prev' = Snap(kind, IF ValidBlock(ip[1]) THEN CurInstr ELSE NoInstr)
    /\ UNCHANGED << parser, user_functions, code, entrypoint, external_functions, eval_stack, variables,
                    ip, call_stack, cycles, evaluating_side_effects,
                    blocks_to_eval, extern_func_call_count, extern_log, sweep, xfers >>

\* self.code[self.ip.0] with a block index outside the table
FetchOutOfRange ==
    /\ Running
    /\ ~ValidBlock(ip[1])
    /\ Panic("FetchOutOfRange")

\* ip past the end of the entry block: break
EntryEnd ==
    /\ Running
    /\ ValidBlock(ip[1])
    /\ AtEnd /\ ip[1] = entrypoint
    /\ status' = "done"
    /\ prev' = Snap("EntryEnd", NoInstr)
    /\ UNCHANGED << parser, user_functions, code, entrypoint, external_functions, eval_stack, variables,
                    ip, call_stack, cycles, evaluating_side_effects,
                    blocks_to_eval, extern_func_call_count, extern_log, sweep, xfers >>

\* self.cycles += 1; if self.cycles > 1000 { break }
Ceiling ==
    /\ Running
    /\ ValidBlock(ip[1])
    /\ ~(AtEnd /\ ip[1] = entrypoint)
    /\ ~BelowCeiling
    /\ cycles' = cycles + 1
    /\ status' = "done"
    /\ prev' = Snap("Ceiling", CurInstr)
    /\ UNCHANGED << parser, user_functions, code, entrypoint, external_functions, eval_stack, variables,
                    ip, call_stack, evaluating_side_effects,
                    blocks_to_eval, extern_func_call_count, extern_log, sweep, xfers >>

\* ====================================================== side-effect mode
\* Mutant: on leaving the mode the continuation is read but not popped.
RECURSIVE DrainLeavesContinuation(_, _, _, _)
DrainLeavesContinuation(p, queue, cs, flag) ==
    IF ~ValidBlock(p[1])
    THEN [panic |-> TRUE, jumped |-> FALSE, ip |-> p, blocks_to_eval |-> queue,
          call_stack |-> cs, evaluating_side_effects |-> flag]
    ELSE IF p[2] < Len(Blk(p[1]))
    THEN [panic |-> FALSE, jumped |-> FALSE, ip |-> p, blocks_to_eval |-> queue,
          call_stack |-> cs, evaluating_side_effects |-> flag]
    ELSE IF queue # <<>>
    THEN IF Last(queue) # CONTINUE
         THEN [panic |-> FALSE, jumped |-> TRUE, ip |-> << Last(queue), 0 >>,
               blocks_to_eval |-> Front(queue), call_stack |-> cs,
               evaluating_side_effects |-> flag]
         ELSE DrainLeavesContinuation(p, Front(queue), cs, flag)
    ELSE IF cs = <<>>
    THEN [panic |-> TRUE, jumped |-> FALSE, ip |-> p, blocks_to_eval |-> queue,
          call_stack |-> cs, evaluating_side_effects |-> FALSE]
    ELSE DrainLeavesContinuation(Last(cs), queue, cs, FALSE)

\* The while loop at the end of a block: pop the work queue until a label
\* other than CONTINUE turns up (jump there, continue 'outer); with the
\* queue empty leave the mode and take the continuation off the call stack.
RECURSIVE Drain(_, _, _, _)
Drain(p, queue, cs, flag) ==
    IF ~ValidBlock(p[1])
    THEN [panic |-> TRUE, jumped |-> FALSE, ip |-> p, blocks_to_eval |-> queue,
          call_stack |-> cs, evaluating_side_effects |-> flag]
    ELSE IF p[2] < Len(Blk(p[1]))
    THEN [panic |-> FALSE, jumped |-> FALSE, ip |-> p, blocks_to_eval |-> queue,
          call_stack |-> cs, evaluating_side_effects |-> flag]
    ELSE IF queue # <<>>
    THEN IF Last(queue) # CONTINUE
         THEN [panic |-> FALSE, jumped |-> TRUE, ip |-> << Last(queue), 0 >>,
               blocks_to_eval |-> Front(queue), call_stack |-> cs,
               evaluating_side_effects |-> flag]
         ELSE Drain(p, Front(queue), cs, flag)
    ELSE IF cs = <<>>
    THEN [panic |-> TRUE, jumped |-> FALSE, ip |-> p, blocks_to_eval |-> queue,
          call_stack |-> cs, evaluating_side_effects |-> FALSE]
    ELSE Drain(Last(cs), queue, Front(cs), FALSE)

\* End of a block in side-effect mode.  When the loop ends without a jump
\* the fetched implicit Return matches no arm and ip.1 += 1 follows.
SweepBlockEnd ==
    /\ Fetched("Return") /\ evaluating_side_effects /\ AtEnd
    /\ LET r == Drain(ip, blocks_to_eval, call_stack, evaluating_side_effects)
       IN  IF r.panic
           THEN Panic("SweepBlockEnd")
           ELSE /\ ip' = IF r.jumped THEN r.ip ELSE Advance(r.ip)
                /\ blocks_to_eval' = r.blocks_to_eval
                /\ call_stack' = r.call_stack
                /\ evaluating_side_effects' = r.evaluating_side_effects
                /\ cycles' = cycles + 1
                /\ xfers' = IF r.jumped THEN xfers ELSE Front(xfers)
                /\ sweep' = IF r.jumped
                             THEN [sweep EXCEPT !.entered = Append(@, r.ip[1])]
                             ELSE sweep
                /\ prev' = Snap("SweepBlockEnd", Return)
                /\ UNCHANGED << parser, user_functions, code, entrypoint, external_functions, eval_stack,
                                variables, extern_func_call_count, status,
                                extern_log >>

\* Mutant: the forced store also wipes every other variable.
SweepStoreAll(vs, i) == [a \in DOMAIN vs |-> Waiting]

\* self.variables[i.0] = DataVal::Waiting
SweepStore(vs, i) == [vs EXCEPT ![i + 1] = Waiting]

SweepStoreIdent ==
    /\ SweepStep("StoreIdent")
    /\ LET i == CurInstr[2]
       IN  IF i >= Len(variables)
           THEN Panic("SweepStoreIdent")
           ELSE /\ variables' = SweepStore(variables, i)
                /\ ip' = Advance(ip)
                /\ cycles' = cycles + 1
                /\ prev' = Snap("SweepStoreIdent", CurInstr)
                /\ UNCHANGED << parser, user_functions, code, entrypoint, external_functions, eval_stack,
                                call_stack, evaluating_side_effects, blocks_to_eval,
                                extern_func_call_count, status, extern_log, sweep, xfers >>

\* Mutant: the sweep does not follow Call into the body of the function.
SweepPushesNoCall(instr) ==
    IF instr[1] = "IfExpr" THEN << instr[2], instr[3] >>
    ELSE IF instr[1] = "Goto" THEN << instr[2] >>
    ELSE <<>>

\* Mutant: a nested IfExpr enqueues its if_true arm only.
SweepPushesTrueArm(instr) ==
    IF instr[1] \in { "IfExpr", "Goto", "Call" } THEN << instr[2] >>
    ELSE <<>>

\* The labels an instruction adds to the work queue in side-effect mode.
SweepPushes(instr) ==
    IF instr[1] = "IfExpr" THEN << instr[2], instr[3] >>
    ELSE IF instr[1] \in { "Goto", "Call" } THEN << instr[2] >>
    ELSE <<>>

SweepEnqueue(kind) ==
    /\ SweepStep(kind)
    /\ blocks_to_eval' = blocks_to_eval \o SweepPushes(CurInstr)
    /\ ip' = Advance(ip)
    /\ cycles' = cycles + 1
    /\ prev' = Snap("Sweep" \o kind, CurInstr)
    /\ UNCHANGED << parser, user_functions, code, entrypoint, external_functions, eval_stack, variables,
                    call_stack, evaluating_side_effects,
                    extern_func_call_count, status, extern_log, sweep, xfers >>

SweepIfExpr == SweepEnqueue("IfExpr")
SweepGoto == SweepEnqueue("Goto")
SweepCall == SweepEnqueue("Call")

\* Every other instruction is skipped: _ => {}
SweepOther ==
    /\ Running /\ ValidBlock(ip[1]) /\ ~AtEnd /\ BelowCeiling
    /\ evaluating_side_effects
    /\ CurInstr[1] \notin { "StoreIdent", "IfExpr", "Goto", "Call" }
    /\ ip' = Advance(ip)
    /\ cycles' = cycles + 1
    /\ prev' = Snap("SweepOther", CurInstr)
    /\ UNCHANGED << parser, user_functions, code, entrypoint, external_functions, eval_stack, variables,
                    call_stack, evaluating_side_effects, blocks_to_eval,
                    extern_func_call_count, status, extern_log, sweep, xfers >>


\* ============================================================ normal mode
\* The outcome of an instruction that only works on the operand stack:
\* the new stack, or a panic (unwrap on None / on the wrong tag, index out
\* of bounds, unimplemented operator).
Ok(stack) == [ok |-> TRUE, stack |-> stack]
Fail == [ok |-> FALSE, stack |-> <<>>]

\* Mutant: only the operand popped first is tested for Waiting.
WaitingOperandFirst(x, y) == is_waiting(x)

\* x.is_waiting() || y.is_waiting()  in arith! and rel!
WaitingOperand(x, y) == is_waiting(x) \/ is_waiting(y)

\* Mutant: the operand popped second is taken as the left one.
IntArithSwapped(op, a, b) ==
    CASE op = "+" -> b + a
      [] op = "-" -> b - a
      [] op = "*" -> b * a
      [] op = "/" -> TruncDiv(b, a)

\* $op on two i64 (x is the operand popped first)
IntArith(op, a, b) ==
    CASE op = "+" -> a + b
      [] op = "-" -> a - b
      [] op = "*" -> a * b
      [] op = "/" -> TruncDiv(a, b)

\* $op on two f64
FloatArith(op, a, b) ==
    CASE op = "+" -> Frac(a[1] * b[2] + b[1] * a[2], a[2] * b[2])
      [] op = "-" -> Frac(a[1] * b[2] - b[1] * a[2], a[2] * b[2])
      [] op = "*" -> Frac(a[1] * b[1], a[2] * b[2])
      [] op = "/" -> Frac(a[1] * b[2], a[2] * b[1])

\* Mutant: every comparison also holds for equal operands.
NumRelOrEqual(op, a, b) ==
    LET l == a[1] * b[2]
        r == b[1] * a[2]
    IN  CASE op \in { "==", "<=", ">=" } -> TRUE
          [] op = "!=" -> l # r
          [] op = "<" -> l <= r
          [] op = ">" -> l >= r

\* PartialEq / PartialOrd on two numbers given as fractions
NumRel(op, a, b) ==
    LET l == a[1] * b[2]
        r == b[1] * a[2]
    IN  CASE op = "==" -> l = r
          [] op = "!=" -> l # r
          [] op = "<" -> l < r
          [] op = "<=" -> l <= r
          [] op = ">" -> l > r
          [] op = ">=" -> l >= r

\* arith!($self, $op)
arith(op, stack) ==
    IF Len(stack) < 2 THEN Fail
    ELSE LET x == stack[Len(stack)]
             y == stack[Len(stack) - 1]
             rest == DropLast(stack, 2)
         IN  IF WaitingOperand(x, y) THEN Ok(Append(rest, Waiting))
             ELSE IF is_integer(x)
             THEN IF ~is_integer(y) \/ (op = "/" /\ y[2] = 0) THEN Fail
                  ELSE Ok(Append(rest, IntV(IntArith(op, x[2], y[2]))))
             ELSE IF is_float(x)
             THEN IF ~is_float(y) THEN Fail
                  ELSE Ok(Append(rest, <<"Float", FloatArith(op, x[2], y[2])>>))
             ELSE Fail

\* rel!($self, $op)
rel(op, stack) ==
    IF Len(stack) < 2 THEN Fail
    ELSE LET x == stack[Len(stack)]
             y == stack[Len(stack) - 1]
             rest == DropLast(stack, 2)
         IN  IF WaitingOperand(x, y) THEN Ok(Append(rest, Waiting))
             ELSE IF is_integer(x)
             THEN IF ~is_integer(y) THEN Fail
                  ELSE Ok(Append(rest, BoolV(NumRel(op, <<x[2], 1>>, <<y[2], 1>>))))
             ELSE IF is_float(x)
             THEN IF ~is_float(y) THEN Fail
                  ELSE Ok(Append(rest, BoolV(NumRel(op, x[2], y[2]))))
             ELSE Fail

\* Instr::BinaryExpr { op }
ExecBinaryExpr(op, stack) ==
    IF op \in ArithOps THEN arith(op, stack)
    ELSE IF op \in RelOps THEN rel(op, stack)
    ELSE Fail

\* Instr::Concat: both operands must be strings
ExecConcat(stack) ==
    IF Len(stack) < 2 THEN Fail
    ELSE LET x == stack[Len(stack)]
             y == stack[Len(stack) - 1]
         IN  IF is_string(x) /\ is_string(y)
             THEN Ok(Append(DropLast(stack, 2), StrV(x[2] \o y[2])))
             ELSE Fail

\* Instr::UnaryExpr { op }
ExecUnaryExpr(op, stack) ==
    IF op \notin { "-", "!" } \/ stack = <<>> THEN Fail
    ELSE LET top == Last(stack)
             rest == Front(stack)
         IN  IF op = "-"
             THEN CASE is_integer(top) -> Ok(Append(rest, IntV(-top[2])))
                    [] is_float(top) -> Ok(Append(rest, FloatV(-top[2][1], top[2][2])))
                    [] is_waiting(top) -> Ok(Append(rest, Waiting))
                    [] OTHER -> Fail
             ELSE IF is_bool(top) THEN Ok(Append(rest, BoolV(~top[2])))
                  ELSE Fail

\* arr[index] with index.into_integer().unwrap() as usize
ValidIndex(arr, index) ==
    is_compound(arr) /\ is_integer(index) /\ index[2] >= 0 /\ index[2] < Len(arr[2])

\* Instr::CompoundGet
ExecCompoundGet(stack) ==
    IF Len(stack) < 2 THEN Fail
    ELSE LET index == stack[Len(stack)]
             arr == stack[Len(stack) - 1]
             rest == DropLast(stack, 2)
         IN  IF is_waiting(index) \/ is_waiting(arr) THEN Ok(Append(rest, Waiting))
             ELSE IF ValidIndex(arr, index)
             THEN Ok(Append(rest, arr[2][index[2] + 1]))
             ELSE Fail

\* Mutant: only the index is tested for Waiting.
SetIsWaitingIndexOnly(val, index, arr) == is_waiting(index)

\* index.is_waiting() || arr.is_waiting()  in CompoundSet
SetIsWaiting(val, index, arr) == is_waiting(index) \/ is_waiting(arr)

\* Mutant: the value is written into the first slot, whatever the index.
ExecCompoundSetFirst(stack) ==
    IF Len(stack) < 3 THEN Fail
    ELSE LET val == stack[Len(stack)]
             index == stack[Len(stack) - 1]
             arr == stack[Len(stack) - 2]
             rest == DropLast(stack, 3)
         IN  IF SetIsWaiting(val, index, arr) THEN Ok(Append(rest, Waiting))
             ELSE IF ValidIndex(arr, index)
             THEN Ok(Append(rest, CompoundV([arr[2] EXCEPT ![1] = val])))
             ELSE Fail

\* Instr::CompoundSet
ExecCompoundSet(stack) ==
    IF Len(stack) < 3 THEN Fail
    ELSE LET val == stack[Len(stack)]
             index == stack[Len(stack) - 1]
             arr == stack[Len(stack) - 2]
             rest == DropLast(stack, 3)
         IN  IF SetIsWaiting(val, index, arr) THEN Ok(Append(rest, Waiting))
             ELSE IF ValidIndex(arr, index)
             THEN Ok(Append(rest, CompoundV([arr[2] EXCEPT ![index[2] + 1] = val])))
             ELSE Fail

\* Instr::CompoundCreate: vec![DataVal::Bool(false); len]
ExecCompoundCreate(stack) ==
    IF stack = <<>> THEN Fail
    ELSE LET len == Last(stack)
             rest == Front(stack)
         IN  IF is_waiting(len) THEN Ok(Append(rest, Waiting))
             ELSE IF is_integer(len) /\ len[2] >= 0
             THEN Ok(Append(rest, CompoundV([k \in 1..len[2] |-> BoolV(FALSE)])))
             ELSE Fail

\* Instr::Discard: pop without unwrap
ExecDiscard(stack) == IF stack = <<>> THEN Ok(stack) ELSE Ok(Front(stack))

\* An instruction that touches nothing but the operand stack.
StackInstr(kind, r) ==
    /\ NormalStep(kind)
    /\ IF ~r.ok
       THEN Panic(kind)
       ELSE /\ eval_stack' = r.stack
            /\ ip' = Advance(ip)
            /\ cycles' = cycles + 1
            /\ prev' = Snap(kind, CurInstr)
            /\ UNCHANGED << parser, user_functions, code, entrypoint, external_functions, variables,
                            call_stack, evaluating_side_effects, blocks_to_eval,
                            extern_func_call_count, status, extern_log, sweep, xfers >>

DoBinaryExpr == StackInstr("BinaryExpr", ExecBinaryExpr(CurInstr[2], eval_stack))
DoConcat == StackInstr("Concat", ExecConcat(eval_stack))
DoUnaryExpr == StackInstr("UnaryExpr", ExecUnaryExpr(CurInstr[2], eval_stack))
DoLoadConst == StackInstr("LoadConst", Ok(Append(eval_stack, CurInstr[2])))
DoCompoundGet == StackInstr("CompoundGet", ExecCompoundGet(eval_stack))
DoCompoundSet == StackInstr("CompoundSet", ExecCompoundSet(eval_stack))
DoCompoundCreate == StackInstr("CompoundCreate", ExecCompoundCreate(eval_stack))
DoDiscard == StackInstr("Discard", ExecDiscard(eval_stack))

\* Instr::LoadIdent { i }
DoLoadIdent ==
    StackInstr("LoadIdent",
               IF CurInstr[2] < Len(variables)
               THEN Ok(Append(eval_stack, variables[CurInstr[2] + 1]))
               ELSE Fail)

\* Instr::StoreIdent { i }: self.variables[i.0] = self.eval_stack.pop().unwrap()
DoStoreIdent ==
    /\ NormalStep("StoreIdent")
    /\ LET i == CurInstr[2]
       IN  IF eval_stack = <<>> \/ i >= Len(variables)
           THEN Panic("StoreIdent")
           ELSE /\ variables' = [variables EXCEPT ![i + 1] = Last(eval_stack)]
                /\ eval_stack' = Front(eval_stack)
                /\ ip' = Advance(ip)
                /\ cycles' = cycles + 1
                /\ prev' = Snap("StoreIdent", CurInstr)
                /\ UNCHANGED << parser, user_functions, code, entrypoint, external_functions, call_stack,
                                evaluating_side_effects, blocks_to_eval,
                                extern_func_call_count, status, extern_log, sweep, xfers >>


\* History of a transfer: the transferring instruction, its position, and
\* the depth of the call stack and the operand stack before it.
Transfer == [from |-> ip, depth |-> Len(call_stack), instr |-> CurInstr,
             eval_stack |-> eval_stack]

\* Mutant: the arms are taken the wrong way round.
TakenArmSwapped(b, if_true, if_false) == IF b THEN if_false ELSE if_true

\* The arm a concrete condition selects: if b { if_true } else { if_false }
TakenArm(b, if_true, if_false) == IF b THEN if_true ELSE if_false

\* Mutant: the continuation is pushed twice.
PushContinuationTwice(cs, p) == Append(Append(cs, p), p)

\* self.call_stack.push(self.ip)
PushContinuation(cs, p) == Append(cs, p)

\* Mutant: the continuation is resumed at the transferring instruction.
ResumeAt(label) == label

\* Return: self.ip = label, then the loop's self.ip.1 += 1
ResumeAfter(label) == Advance(label)

\* Instr::IfExpr { if_true, if_false } in normal mode
DoIfExpr ==
    /\ NormalStep("IfExpr")
    /\ LET if_true == CurInstr[2]
           if_false == CurInstr[3]
       IN  IF eval_stack = <<>>
           THEN Panic("IfExpr")
           ELSE IF is_bool(Last(eval_stack))
           THEN LET target == TakenArm(Last(eval_stack)[2], if_true, if_false)
                IN  /\ eval_stack' = Front(eval_stack)
                    /\ IF target # CONTINUE
                       THEN /\ call_stack' = PushContinuation(call_stack, ip)
                            /\ ip' = << target, 0 >>
                            /\ xfers' = Append(xfers, Transfer)
                       ELSE /\ call_stack' = call_stack
                            /\ ip' = Advance(ip)
                            /\ xfers' = xfers
                    /\ cycles' = cycles + 1
                    /\ prev' = Snap("IfExpr", CurInstr)
                    /\ UNCHANGED << parser, user_functions, code, entrypoint, external_functions, variables,
                                    evaluating_side_effects, blocks_to_eval,
                                    extern_func_call_count, status, extern_log,
                                    sweep >>
           ELSE IF is_waiting(Last(eval_stack))
           THEN /\ eval_stack' = Front(eval_stack)
                /\ evaluating_side_effects' = TRUE
                /\ call_stack' = PushContinuation(call_stack, ip)
                /\ ip' = << if_true, 0 >>
                /\ blocks_to_eval' = Append(blocks_to_eval, if_false)
                /\ cycles' = cycles + 1
                /\ sweep' = [active |-> TRUE, at |-> ip,
                             if_true |-> if_true, if_false |-> if_false,
                             variables |-> variables,
                             eval_stack |-> Front(eval_stack),
                             call_stack |-> call_stack,
                             extern_log |-> extern_log,
                             extern_func_call_count |-> extern_func_call_count,
                             entered |-> << if_true >>]
                /\ xfers' = Append(xfers, Transfer)
                /\ prev' = Snap("IfExpr", CurInstr)
                /\ UNCHANGED << parser, user_functions, code, entrypoint, external_functions, variables,
                                extern_func_call_count, status, extern_log >>
           ELSE Panic("IfExpr")

\* Instr::Goto { label } and Instr::Call { label } in normal mode
Jump(kind) ==
    /\ NormalStep(kind)
    /\ call_stack' = PushContinuation(call_stack, ip)
    /\ ip' = << CurInstr[2], 0 >>
    /\ cycles' = cycles + 1
    /\ xfers' = Append(xfers, Transfer)
    /\ prev' = Snap(kind, CurInstr)
    /\ UNCHANGED << parser, user_functions, code, entrypoint, external_functions, eval_stack, variables,
                    evaluating_side_effects, blocks_to_eval,
                    extern_func_call_count, status, extern_log, sweep >>

DoGoto == Jump("Goto")
DoCall == Jump("Call")

\* Instr::Return, explicit or fetched at the end of a block, in normal mode
DoReturn ==
    /\ NormalStep("Return")
    /\ cycles' = cycles + 1
    /\ prev' = Snap("Return", CurInstr)
    /\ IF call_stack # <<>>
       THEN /\ ip' = ResumeAfter(Last(call_stack))
            /\ call_stack' = Front(call_stack)
            /\ xfers' = Front(xfers)
            /\ status' = status
       ELSE /\ status' = "done"
            /\ UNCHANGED << ip, call_stack, xfers >>
    /\ UNCHANGED << parser, user_functions, code, entrypoint, external_functions, eval_stack, variables,
                    evaluating_side_effects, blocks_to_eval,
                    extern_func_call_count, extern_log, sweep >>

\* ------------------------------------------------------------ provider
SerOk(json) == [ok |-> TRUE, json |-> json]
SerFail == [ok |-> FALSE, json |-> JsonNull]

\* serialize_f64 on the JSON serializer: a float that is not finite is
\* written as null.
serialize_f64(f) == IF f[2] = 0 THEN JsonNull ELSE JsonFloat(f)

\* struct_struct.names.iter().find(|kv| *kv.1 == idx)
FieldName(stru, idx) == CHOOSE k \in DOMAIN stru.names : stru.names[k] = idx

\* impl Serialize for TypeAndVal: the match is on the static type, and the
\* value is unwrapped as a value of that type.
RECURSIVE Serialize(_, _)
Serialize(typ, val) ==
    CASE typ[1] = "Integer" ->
            IF is_integer(val) THEN SerOk(JsonInt(val[2])) ELSE SerFail
      [] typ[1] = "Float" ->
            IF is_float(val) THEN SerOk(serialize_f64(val[2])) ELSE SerFail
      [] typ[1] = "Bool" ->
            IF is_bool(val) THEN SerOk(JsonBool(val[2])) ELSE SerFail
      [] typ[1] = "String" ->
            IF is_string(val) THEN SerOk(JsonStr(val[2])) ELSE SerFail
      [] typ[1] = "Array" ->
            IF ~is_compound(val) THEN SerFail
            ELSE LET els == [k \in 1..Len(val[2]) |-> Serialize(typ[2], val[2][k])]
                 IN  IF \E k \in 1..Len(val[2]) : ~els[k].ok THEN SerFail
                     ELSE SerOk(JsonSeq([k \in 1..Len(val[2]) |-> els[k].json]))
      [] typ[1] = "Struct" ->
            IF typ[2] \notin DOMAIN user_structs \/ ~is_compound(val) THEN SerFail
            ELSE LET stru == user_structs[typ[2]]
                     n == Len(val[2])
                 IN  IF \/ n > Len(stru.types)
                        \/ \E k \in 1..n :
                              \A f \in DOMAIN stru.names : stru.names[f] # k - 1
                     THEN SerFail
                     ELSE LET els == [k \in 1..n |->
                                        Serialize(stru.types[k], val[2][k])]
                          IN  IF \E k \in 1..n : ~els[k].ok THEN SerFail
                              ELSE SerOk(JsonMap([k \in 1..n |->
                                      << FieldName(stru, k - 1), els[k].json >>]))
      [] OTHER -> SerOk(WaitingMarker)

DeOk(val) == [ok |-> TRUE, waiting |-> FALSE, val |-> val]
DeErr == [ok |-> FALSE, waiting |-> FALSE, val |-> Waiting]

\* v as i64 on a float: the fraction is dropped (0 for NaN)
FloatAsInt(f) == IF f[2] = 0 THEN 0 ELSE TruncDiv(f[1], f[2])

\* Mutant: a map stands for Waiting only when it has no entry at all.
OnlyWaitingEntriesNone(entries) == entries = <<>>

\* visit_map for a type other than a struct: every entry must be
\* "$waiting": true, and the result is Waiting.
OnlyWaitingEntries(entries) ==
    \A k \in 1..Len(entries) :
        entries[k][1] = "$waiting" /\ entries[k][2] = JsonBool(TRUE)

\* impl Visitor for TypeAndValVisitor, entered through deserialize_any.
RECURSIVE Deserialize(_, _)
RECURSIVE VisitStructMap(_, _, _, _)
\* visit_map for a struct: entries are taken in order; "$waiting" turns the
\* whole object into Waiting, unknown keys are discarded, a known key sets
\* its slot.
VisitStructMap(stru, entries, k, arr) ==
    IF k > Len(entries) THEN DeOk(CompoundV(arr))
    ELSE LET key == entries[k][1]
         IN  IF key = "$waiting" THEN DeOk(Waiting)
             ELSE IF key \notin DOMAIN stru.names
             THEN VisitStructMap(stru, entries, k + 1, arr)
             ELSE LET idx == stru.names[key]
                      el == Deserialize(stru.types[idx + 1], entries[k][2])
                  IN  IF ~el.ok THEN DeErr
                      ELSE VisitStructMap(stru, entries, k + 1,
                                          [arr EXCEPT ![idx + 1] = el.val])

Deserialize(typ, json) ==
    CASE json[1] = "int" ->
            IF typ[1] = "Integer" THEN DeOk(IntV(json[2]))
            ELSE IF typ[1] = "Float" THEN DeOk(FloatV(json[2], 1))
            ELSE DeErr
      [] json[1] = "float" ->
            IF typ[1] = "Integer" THEN DeOk(IntV(FloatAsInt(json[2])))
            ELSE IF typ[1] = "Float" THEN DeOk(<< "Float", json[2] >>)
            ELSE DeErr
      [] json[1] = "bool" ->
            IF typ[1] = "Bool" THEN DeOk(BoolV(json[2])) ELSE DeErr
      [] json[1] = "str" ->
            IF typ[1] = "String" THEN DeOk(StrV(json[2])) ELSE DeErr
      [] json[1] = "seq" ->
            IF typ[1] # "Array" THEN DeErr
            ELSE LET els == [k \in 1..Len(json[2]) |-> Deserialize(typ[2], json[2][k])]
                 IN  IF \E k \in 1..Len(json[2]) : ~els[k].ok THEN DeErr
                     ELSE DeOk(CompoundV([k \in 1..Len(json[2]) |-> els[k].val]))
      [] json[1] = "map" ->
            IF typ[1] = "Struct"
            THEN IF typ[2] \notin DOMAIN user_structs THEN DeErr
                 ELSE LET stru == user_structs[typ[2]]
                      IN  VisitStructMap(stru, json[2], 1,
                             [k \in 1..Len(stru.types) |-> BoolV(FALSE)])
            ELSE IF OnlyWaitingEntries(json[2]) THEN DeOk(Waiting) ELSE DeErr
      [] OTHER -> DeErr

\* impl Visitor for ExternReturnsVisitor: the elements of the response are
\* read one by one against the return types, at most as many as there are
\* types; self.types[i] is indexed before the first element is asked for.
\* deserialize_seq wants an array and, once the visitor is done, its end:
\* elements left unread are an error.
ExternReturns(types, json) ==
    IF json[1] # "seq" \/ types = <<>> \/ Len(json[2]) > Len(types)
    THEN [ok |-> FALSE, vals |-> <<>>]
    ELSE LET n == Len(json[2])
             els == [k \in 1..n |-> Deserialize(types[k], json[2][k])]
         IN  IF \E k \in 1..n : ~els[k].ok THEN [ok |-> FALSE, vals |-> <<>>]
             ELSE [ok |-> TRUE, vals |-> [k \in 1..n |-> els[k].val]]

\* The body of the request: param_types zipped with param_vals.
SerializeParams(param_types, param_vals) ==
    LET els == [k \in 1..Len(param_types) |->
                   Serialize(param_types[k], param_vals[k])]
    IN  IF \E k \in 1..Len(param_types) : ~els[k].ok THEN SerFail
        ELSE SerOk(JsonSeq([k \in 1..Len(param_types) |-> els[k].json]))

\* The body of the provider's response.  The registry entry of an HTTP
\* extern stands for the provider behind it: the body it answers with, or
\* <<>> for a provider that sends the parameters back.
ProviderResponse(body, params) == IF body = <<>> THEN params ELSE body

\* The closure add_http_extern registers: serialize the parameters, post
\* them, deserialize the response against the return types; each failure
\* is an unwrap() that panics.
HttpExtern(param_types, return_types, param_vals, body) ==
    LET req == SerializeParams(param_types, param_vals)
    IN  IF ~req.ok
        THEN [ok |-> FALSE, request |-> JsonNull, returns |-> <<>>]
        ELSE LET r == ExternReturns(return_types,
                                    ProviderResponse(body, req.json))
             IN  [ok |-> r.ok, request |-> req.json, returns |-> r.vals]

\* A closure of the registry applied to the parameters of a call.
Invoke(func_name, param_types, return_types, param_vals, returns) ==
    IF func_name \in HttpExterns
    THEN HttpExtern(param_types, return_types, param_vals, returns)
    ELSE [ok |-> TRUE, request |-> JsonNull, returns |-> returns]

\* Mutant: the parameters are popped one by one, the last pushed first.
ParamValsPopped(below, n) == [k \in 1..n |-> below[Len(below) - k + 1]]

\* self.eval_stack.split_off(self.eval_stack.len() - param_types.len())
ParamVals(below, n) == TakeLast(below, n)

\* Mutant: the per-name counter is read after it was incremented.
CallCountFromOne(counts, func_name) == counts[func_name] + 1

\* *self.extern_func_call_count.get(&func_name).unwrap_or(&0)
CallCount(counts, func_name) == counts[func_name]

\* Mutant: a name missing from the registry is a function returning nothing.
LookupOrEmpty(func_name) ==
    [found |-> TRUE,
     returns |-> IF func_name \in DOMAIN external_functions
                 THEN external_functions[func_name] ELSE <<>>]

\* self.external_functions.get(&func_name).expect("unknown external function")
Lookup(func_name) ==
    IF func_name \in DOMAIN external_functions
    THEN [found |-> TRUE, returns |-> external_functions[func_name]]
    ELSE [found |-> FALSE, returns |-> <<>>]

\* Instr::ExternCall { param_types, return_types }
DoExternCall ==
    /\ NormalStep("ExternCall")
    /\ LET n == Len(CurInstr[2])
       IN  IF eval_stack = <<>>
           THEN Panic("ExternCall")
           ELSE IF ~is_string(Last(eval_stack))
           THEN Panic("ExternCall")
           ELSE LET func_name == Last(eval_stack)[2]
                    below == Front(eval_stack)
                IN  IF \/ Len(below) < n
                       \/ call_stack = <<>>
                       \/ ~Lookup(func_name).found
                    THEN Panic("ExternCall")
                    ELSE LET param_vals == ParamVals(below, n)
                             call_site == Last(call_stack)
                             call_count == CallCount(extern_func_call_count, func_name)
                             r == Invoke(func_name, CurInstr[2], CurInstr[3],
                                         param_vals, Lookup(func_name).returns)
                             returns == r.returns
                         IN  IF ~r.ok THEN Panic("ExternCall") ELSE
                             /\ eval_stack' = DropLast(below, n) \o returns
                             /\ extern_func_call_count' =
                                    [extern_func_call_count EXCEPT
                                        ![func_name] = call_count + 1]
                             /\ extern_log' = Append(extern_log,
                                    [name |-> func_name,
                                     id |-> << call_site[1], call_site[2], call_count >>,
                                     params |-> param_vals,
                                     request |-> r.request,
                                     returns |-> returns])
                             /\ ip' = Advance(ip)
                             /\ cycles' = cycles + 1
                             /\ prev' = Snap("ExternCall", CurInstr)
                             /\ UNCHANGED << parser, user_functions, code, entrypoint, external_functions,
                                             variables, call_stack,
                                             evaluating_side_effects, blocks_to_eval,
                                             status, sweep, xfers >>

\* ================================================================ parser
\* Parser::program reads the statements in order; every step below consumes
\* one statement head and appends what the statement emits to the block
\* under construction.  cur_scope is the chain of symbol tables, innermost
\* last; each table maps a name to its Ident (addr, data_type).
\* Mutant: only the outermost table is searched.
get_global(scope, name) ==
    IF Len(scope) = 0 \/ name \notin DOMAIN scope[1]
    THEN [found |-> FALSE, addr |-> 0, data_type |-> WaitingType]
    ELSE [found |-> TRUE, addr |-> scope[1][name].addr,
          data_type |-> scope[1][name].data_type]

\* Scope::get: the innermost table holding the name, then its prev chain.
RECURSIVE get(_, _)
get(scope, name) ==
    IF Len(scope) = 0
    THEN [found |-> FALSE, addr |-> 0, data_type |-> WaitingType]
    ELSE IF name \in DOMAIN Last(scope)
    THEN [found |-> TRUE, addr |-> Last(scope)[name].addr,
          data_type |-> Last(scope)[name].data_type]
    ELSE get(Front(scope), name)

\* Scope::put: HashMap::insert into the innermost table.
put(scope, name, id) ==
    [scope EXCEPT ![Len(scope)] =
        [n \in DOMAIN @ \cup {name} |-> IF n = name THEN id ELSE @[n]]]

\* Mutant: a slot is pushed only while the store is empty.
allocate_var_reuse(vs) == IF vs = <<>> THEN << BoolV(FALSE) >> ELSE vs

\* Prog::allocate_var: the store after the push; the address is its old length.
allocate_var(vs) == Append(vs, BoolV(FALSE))

\* DataVal::default_for
default_for_placeholder(ty) == BoolV(FALSE)

RECURSIVE default_for(_)
default_for(ty) ==
    IF ty = Integer THEN IntV(0)
    ELSE IF ty = Float THEN FloatV(0, 1)
    ELSE IF ty = Bool THEN BoolV(FALSE)
    ELSE IF ty = String THEN StrV("")
    ELSE IF ty[1] = "Array" THEN CompoundV(<<>>)
    ELSE LET strct == user_structs[ty[2]]
         IN  CompoundV([k \in 1..Cardinality(DOMAIN strct.names) |->
                           default_for(strct.types[k])])

RECURSIVE Flatten(_)
Flatten(seqs) == IF seqs = <<>> THEN <<>> ELSE Head(seqs) \o Flatten(Tail(seqs))

\* Expr::emit and Expr::out_type of one expression, its identifiers
\* resolved in scope as the parser's factor() does.  ok is FALSE where the
\* parser or the emitter panics; typ is WaitingType where only out_type
\* panics.
RECURSIVE EmitExpr(_, _)
EmitExpr(expr, scope) ==
    LET Bad == [ok |-> FALSE, code |-> <<>>, typ |-> WaitingType]
        All(exprs) == [k \in 1..Len(exprs) |-> EmitExpr(exprs[k], scope)]
        AllOk(rs) == \A k \in 1..Len(rs) : rs[k].ok
        \* the fields a struct literal does not give, with their defaults
        RemainingFields(strct, given) ==
            LET idxs == { strct.names[f] : f \in DOMAIN strct.names \ given }
            IN  [k \in 1..Len(strct.types) |->
                    IF k - 1 \in idxs
                    THEN << LoadConst(IntV(k - 1)),
                            LoadConst(default_for(strct.types[k])), CompoundSet >>
                    ELSE <<>>]
    IN
    IF expr[1] = "Const"
    THEN [ok |-> TRUE, code |-> << LoadConst(expr[2]) >>, typ |-> expr[3]]
    ELSE IF expr[1] = "Ident"
    THEN LET id == get(scope, expr[2])
         IN  IF ~id.found THEN Bad
             ELSE [ok |-> TRUE, code |-> << LoadIdent(id.addr) >>,
                   typ |-> id.data_type]
    ELSE IF expr[1] = "Arith"
    THEN LET x == EmitExpr(expr[3], scope)
             y == EmitExpr(expr[4], scope)
         IN  IF ~x.ok \/ ~y.ok THEN Bad
             ELSE [ok |-> TRUE,
                   code |-> y.code \o x.code \o << BinaryExpr(expr[2]) >>,
                   typ |-> IF expr[2] \in RelOps THEN Bool ELSE x.typ]
    ELSE IF expr[1] = "ArrayLiteral"
    THEN LET vs == All(expr[2])
         IN  IF ~AllOk(vs) THEN Bad
             ELSE [ok |-> TRUE,
                   code |-> << LoadConst(IntV(Len(vs))), CompoundCreate >>
                            \o Flatten([k \in 1..Len(vs) |->
                                   << LoadConst(IntV(k - 1)) >> \o vs[k].code
                                   \o << CompoundSet >>]),
                   typ |-> IF vs = <<>> THEN WaitingType ELSE Array(vs[1].typ)]
    ELSE IF expr[1] = "ArrayIndex"
    THEN LET arr == get(scope, expr[2])
             index == EmitExpr(expr[3], scope)
         IN  IF ~arr.found \/ ~index.ok THEN Bad
             ELSE [ok |-> TRUE,
                   code |-> << LoadIdent(arr.addr) >> \o index.code
                            \o << CompoundGet >>,
                   typ |-> IF arr.data_type[1] = "Array" THEN arr.data_type[2]
                           ELSE WaitingType]
    ELSE IF expr[1] = "StructAccess"
    THEN LET e == EmitExpr(expr[2], scope)
         IN  IF ~e.ok \/ e.typ[1] # "Struct" THEN Bad
             ELSE IF e.typ[2] \notin DOMAIN user_structs THEN Bad
             ELSE LET strct == user_structs[e.typ[2]]
                  IN  IF expr[3] \notin DOMAIN strct.names THEN Bad
                      ELSE [ok |-> TRUE,
                            code |-> e.code
                                     \o << LoadConst(IntV(strct.names[expr[3]])),
                                           CompoundGet >>,
                            typ |-> strct.types[strct.names[expr[3]] + 1]]
    ELSE IF expr[1] = "StructLiteral"
    THEN LET vs == All([k \in 1..Len(expr[3]) |-> expr[3][k][2]])
             given == { expr[3][k][1] : k \in 1..Len(expr[3]) }
         IN  IF ~AllOk(vs) \/ expr[2] \notin DOMAIN user_structs THEN Bad
             ELSE LET strct == user_structs[expr[2]]
                  IN  IF ~(given \subseteq DOMAIN strct.names) THEN Bad
                      ELSE [ok |-> TRUE,
                            code |-> << LoadConst(IntV(Len(strct.types))),
                                        CompoundCreate >>
                                     \o Flatten([k \in 1..Len(vs) |->
                                            << LoadConst(IntV(
                                                   strct.names[expr[3][k][1]])) >>
                                            \o vs[k].code \o << CompoundSet >>])
                                     \o Flatten(RemainingFields(strct, given)),
                            typ |-> Struct(expr[2])]
    ELSE IF expr[1] = "FuncCall"
    THEN LET ps == All(expr[3])
         IN  IF ~AllOk(ps) \/ expr[2] \notin DOMAIN user_functions THEN Bad
             ELSE LET func == user_functions[expr[2]]
                  IN  [ok |-> TRUE,
                       code |-> Flatten([k \in 1..Len(ps) |-> ps[k].code])
                                \o << Call(func.label) >>,
                       typ |-> IF Len(func.returns) = 1 THEN func.returns[1]
                               ELSE WaitingType]
    ELSE Bad

\* ---------------------------------------------------------- block layout
\* Stmt::emit of the block statements; add_block is Append, the label of
\* the added block is the length of the table before, and mod_block
\* replaces the block of a label.  The body of an if or of an else is a
\* block of its own, entered by the IfExpr that ends the condition
\* (if_true is CONTINUE until the else body gives the other arm); a loop is
\* a condition block ending in IfExpr and a body block ending in Goto back
\* to the condition; a function is a block that stores its parameters,
\* last first, and ends in Return.
EmitIf(blocks, outer, if_true, body) ==
    [code |-> Append(blocks, body),
     block |-> Append(outer, IF if_true = CONTINUE
                             THEN IfExpr(Len(blocks), CONTINUE)
                             ELSE IfExpr(if_true, Len(blocks)))]

EmitWhile(blocks, outer, cond, label, body) ==
    [code |-> [Append(blocks, Append(body, Goto(label))) EXCEPT
                  ![label + 1] = Append(cond, IfExpr(Len(blocks), CONTINUE))],
     block |-> Append(outer, Goto(label))]

EmitFuncImpl(blocks, label, params, body) ==
    [blocks EXCEPT ![label + 1] =
        [k \in 1..Len(params) |-> StoreIdent(params[Len(params) + 1 - k])]
        \o body \o << Return >>]

\* ---------------------------------------------------------- parse steps
\* parser.open holds the constructs whose '}' has not been read yet,
\* innermost last: what the parser's recursion keeps on its stack while it
\* parses a body (the block of the enclosing statements, the condition of
\* a loop, the label reserved by add_temp_block, the parameters and the
\* signature of a function).
\* The parser after the statement: the lexer is past it, last records it
\* (with the scope, the variable store and the length of the block under
\* construction before the statement).
Consumed(kind, name, addr) ==
    [parser EXCEPT !.lexer = Tail(@),
                   !.last = [kind |-> kind, name |-> name, addr |-> addr,
                             cur_scope |-> parser.cur_scope,
                             variables |-> variables,
                             emitted |-> Len(parser.block)]]

Emitted(p, vs, blocks, funcs) ==
    /\ parser' = p
    /\ variables' = vs
    /\ code' = blocks
    /\ user_functions' = funcs
    /\ UNCHANGED << entrypoint, external_functions, eval_stack, ip, call_stack,
                    cycles, evaluating_side_effects, blocks_to_eval,
                    extern_func_call_count, status, extern_log, sweep, xfers,
                    prev >>

\* A panic of the parser or of an emitter: no program is produced.
ParsePanic(kind, name) ==
    /\ status' = "panic"
    /\ parser' = Consumed(kind, name, 0)
    /\ UNCHANGED << code, entrypoint, external_functions, eval_stack, variables,
                    ip, call_stack, cycles, evaluating_side_effects,
                    blocks_to_eval, extern_func_call_count, extern_log, sweep,
                    xfers, prev, user_functions >>

\* name := expr;
ParseDeclAssign ==
    /\ status = "parsing"
    /\ parser.lexer # <<>>
    /\ Head(parser.lexer)[1] = "DeclAssign"
    /\ LET stmt == Head(parser.lexer)
           expr == EmitExpr(stmt[3], parser.cur_scope)
           addr == Len(variables)
           id == [addr |-> addr, data_type |-> expr.typ]
       IN  IF ~expr.ok \/ expr.typ = WaitingType
           THEN ParsePanic("DeclAssign", stmt[2])
           ELSE Emitted([Consumed("DeclAssign", stmt[2], addr) EXCEPT
                            !.cur_scope = put(@, stmt[2], id),
                            !.block = @ \o expr.code \o << StoreIdent(addr) >>,
                            !.decls = Append(@, [name |-> stmt[2], addr |-> addr,
                                                 depth |-> Len(parser.cur_scope),
                                                 func |-> "", pos |-> 0])],
                        allocate_var(variables), code, user_functions)

\* name = expr;
ParseAssign ==
    /\ status = "parsing"
    /\ parser.lexer # <<>>
    /\ Head(parser.lexer)[1] = "Assign"
    /\ LET stmt == Head(parser.lexer)
           id == get(parser.cur_scope, stmt[2])
           expr == EmitExpr(stmt[3], parser.cur_scope)
       IN  IF ~id.found \/ ~expr.ok
           THEN ParsePanic("Assign", stmt[2])
           ELSE Emitted([Consumed("Assign", stmt[2], id.addr) EXCEPT
                            !.block = @ \o expr.code \o << StoreIdent(id.addr) >>],
                        variables, code, user_functions)

\* name[index] = expr;
ParseAssignArray ==
    /\ status = "parsing"
    /\ parser.lexer # <<>>
    /\ Head(parser.lexer)[1] = "AssignArray"
    /\ LET stmt == Head(parser.lexer)
           id == get(parser.cur_scope, stmt[2])
           index == EmitExpr(stmt[3], parser.cur_scope)
           expr == EmitExpr(stmt[4], parser.cur_scope)
       IN  IF ~id.found \/ ~index.ok \/ ~expr.ok
           THEN ParsePanic("AssignArray", stmt[2])
           ELSE Emitted([Consumed("AssignArray", stmt[2], id.addr) EXCEPT
                            !.block = @ \o << LoadIdent(id.addr) >> \o index.code
                                        \o expr.code
                                        \o << CompoundSet, StoreIdent(id.addr) >>],
                        variables, code, user_functions)

\* name(params);
ParseFuncCall ==
    /\ status = "parsing"
    /\ parser.lexer # <<>>
    /\ Head(parser.lexer)[1] = "FuncCall"
    /\ LET stmt == Head(parser.lexer)
           call == EmitExpr(stmt, parser.cur_scope)
       IN  IF ~call.ok
           THEN ParsePanic("FuncCall", stmt[2])
           ELSE Emitted([Consumed("FuncCall", stmt[2], 0) EXCEPT
                            !.block = @ \o call.code
                                        \o [k \in 1..Len(user_functions[stmt[2]].returns)
                                              |-> Discard],
                            !.calls = Append(@,
                                [func |-> stmt[2], depth |-> Len(parser.open),
                                 first |-> Len(parser.block),
                                 next |-> Len(parser.block) + Len(call.code)
                                          + Len(user_functions[stmt[2]].returns)])],
                        variables, code, user_functions)

\* return values;
ParseReturn ==
    /\ status = "parsing"
    /\ parser.lexer # <<>>
    /\ Head(parser.lexer)[1] = "Return"
    /\ LET stmt == Head(parser.lexer)
           values == [k \in 1..Len(stmt[2]) |->
                         EmitExpr(stmt[2][k], parser.cur_scope)]
       IN  IF \E k \in 1..Len(values) : ~values[k].ok
           THEN ParsePanic("Return", "")
           ELSE Emitted([Consumed("Return", "", 0) EXCEPT
                            !.block = @ \o Flatten([k \in 1..Len(values) |->
                                                      values[k].code])
                                        \o << Return >>],
                        variables, code, user_functions)

\* {
ParseBlock ==
    /\ status = "parsing"
    /\ parser.lexer # <<>>
    /\ Head(parser.lexer)[1] = "{"
    /\ Emitted([Consumed("{", "", 0) EXCEPT
                   !.cur_scope = Append(@, <<>>),
                   !.open = Append(@, [kind |-> "Block", block |-> <<>>, cond |-> <<>>, label |-> 0, params |-> <<>>, sig |-> [name |-> "", params |-> <<>>, returns |-> <<>>]])],
               variables, code, user_functions)

\* if expr {
ParseIf ==
    /\ status = "parsing"
    /\ parser.lexer # <<>>
    /\ Head(parser.lexer)[1] = "If"
    /\ LET expr == EmitExpr(Head(parser.lexer)[2], parser.cur_scope)
       IN  IF ~expr.ok
           THEN ParsePanic("If", "")
           ELSE Emitted([Consumed("If", "", 0) EXCEPT
                            !.cur_scope = Append(@, <<>>),
                            !.open = Append(@,
                                [kind |-> "If", block |-> parser.block \o expr.code, cond |-> <<>>, label |-> 0, params |-> <<>>, sig |->
                                 [name |-> "", params |-> <<>>, returns |-> <<>>]]),
                            !.block = <<>>],
                        variables, code, user_functions)

\* } else {
ParseElse ==
    /\ status = "parsing"
    /\ parser.lexer # <<>>
    /\ Head(parser.lexer)[1] = "Else"
    /\ IF parser.open = <<>> \/ Last(parser.open).kind # "If"
       THEN ParsePanic("Else", "")
       ELSE Emitted([Consumed("Else", "", 0) EXCEPT
                        !.cur_scope = Append(Front(@), <<>>),
                        !.open = Append(Front(@),

                            [kind |-> "IfElse", block |-> Last(parser.open).block, cond |-> <<>>, label |-> Len(code), params |-> <<>>, sig |->
                             [name |-> "", params |-> <<>>, returns |-> <<>>]]),
                        !.block = <<>>],
                    variables, Append(code, parser.block), user_functions)

\* while expr {
ParseWhile ==
    /\ status = "parsing"
    /\ parser.lexer # <<>>
    /\ Head(parser.lexer)[1] = "While"
    /\ LET expr == EmitExpr(Head(parser.lexer)[2], parser.cur_scope)
       IN  IF ~expr.ok
           THEN ParsePanic("While", "")
           ELSE Emitted([Consumed("While", "", 0) EXCEPT
                            !.cur_scope = Append(@, <<>>),
                            !.open = Append(@,
                                [kind |-> "While", block |-> parser.block, cond |-> expr.code, label |-> Len(code), params |-> <<>>, sig |->
                                 [name |-> "", params |-> <<>>, returns |-> <<>>]]),
                            !.block = <<>>],
                        variables, Append(code, <<>>), user_functions)

\* func name(params) (returns) {
ParseFunc ==
    /\ status = "parsing"
    /\ parser.lexer # <<>>
    /\ Head(parser.lexer)[1] = "Func"
    /\ LET stmt == Head(parser.lexer)
           n == Len(stmt[3])
           addrs == [k \in 1..n |-> Len(variables) + k - 1]
           RECURSIVE decl_list(_, _, _)
           decl_list(scope, vs, k) ==
               IF k > n THEN [scope |-> scope, vs |-> vs]
               ELSE decl_list(put(scope, stmt[3][k][1],
                                  [addr |-> Len(vs), data_type |-> stmt[3][k][2]]),
                              allocate_var(vs), k + 1)
           params == decl_list(Append(parser.cur_scope, <<>>), variables, 1)
       IN  Emitted([Consumed("Func", stmt[2], 0) EXCEPT
                       !.cur_scope = Append(params.scope, <<>>),
                       !.open = Append(@,
                           [kind |-> "Func", block |-> parser.block, cond |-> <<>>, label |-> Len(code), params |-> addrs, sig |->
                            [name |-> stmt[2], params |-> [k \in 1..n |-> stmt[3][k][2]], returns |-> stmt[4]]]),
                       !.block = <<>>,
                       !.decls = @ \o [k \in 1..n |->
                                          [name |-> stmt[3][k][1],
                                           addr |-> addrs[k],
                                           depth |-> Len(parser.cur_scope) + 1,
                                           func |-> stmt[2], pos |-> k]]],
                   params.vs, Append(code, <<>>), user_functions)

\* func extern name(params) (returns);
ParseExternFunc ==
    /\ status = "parsing"
    /\ parser.lexer # <<>>
    /\ Head(parser.lexer)[1] = "ExternFunc"
    /\ LET stmt == Head(parser.lexer)
       IN  Emitted(Consumed("ExternFunc", stmt[2], 0), variables,
                   Append(code, << LoadConst(StrV(stmt[2])),
                                      ExternCall(stmt[3], stmt[4]), Return >>),
                   [n \in DOMAIN user_functions \cup {stmt[2]} |->
                       IF n = stmt[2]
                       THEN [label |-> Len(code), params |-> stmt[3],
                             returns |-> stmt[4]]
                       ELSE user_functions[n]])

\* }
ParseClose ==
    /\ status = "parsing"
    /\ parser.lexer # <<>>
    /\ Head(parser.lexer)[1] = "}"
    /\ IF parser.open = <<>>
       THEN ParsePanic("}", "")
       ELSE LET frame == Last(parser.open)
                closed == [Consumed("}", frame.sig.name, frame.label) EXCEPT
                              !.cur_scope = Front(@),
                              !.open = Front(@)]
            IN  IF frame.kind = "Block"
                THEN Emitted(closed, variables, code, user_functions)
                ELSE IF frame.kind = "If"
                THEN LET e == EmitIf(code, frame.block, CONTINUE, parser.block)
                     IN  Emitted([closed EXCEPT !.block = e.block], variables,
                                 e.code, user_functions)
                ELSE IF frame.kind = "IfElse"
                THEN LET e == EmitIf(code, frame.block, frame.label, parser.block)
                     IN  Emitted([closed EXCEPT !.block = e.block], variables,
                                 e.code, user_functions)
                ELSE IF frame.kind = "While"
                THEN LET e == EmitWhile(code, frame.block, frame.cond,
                                        frame.label, parser.block)
                     IN  Emitted([closed EXCEPT !.block = e.block], variables,
                                 e.code, user_functions)
                ELSE Emitted([closed EXCEPT !.cur_scope = Front(@),
                                            !.block = frame.block],
                             variables,
                             EmitFuncImpl(code, frame.label, frame.params,
                                          parser.block),
                             [n \in DOMAIN user_functions \cup {frame.sig.name} |->
                                 IF n = frame.sig.name
                                 THEN [label |-> frame.label,
                                       params |-> frame.sig.params,
                                       returns |-> frame.sig.returns]
                                 ELSE user_functions[n]])

\* Parser::program at EOF: the statements read at the top level become the
\* entry block, added last; then execute() starts at (entrypoint, 0).
Program ==
    /\ status = "parsing"
    /\ parser.lexer = <<>>
    /\ parser.open = <<>>
    /\ code' = Append(code, parser.block)
    /\ entrypoint' = Len(code)
    /\ ip' = << Len(code), 0 >>
    /\ status' = "running"
    /\ parser' = [parser EXCEPT !.block = <<>>,
                                !.last = [kind |-> "Program", name |-> "",
                                          addr |-> 0,
                                          cur_scope |-> parser.cur_scope,
                                          variables |-> variables,
                                          emitted |-> Len(parser.block)]]
    /\ UNCHANGED << external_functions, eval_stack, variables, call_stack, cycles,
                    evaluating_side_effects, blocks_to_eval,
                    extern_func_call_count, extern_log, sweep, xfers, prev,
                    user_functions >>

\* ========================================================= specification
Next ==
    \/ FetchOutOfRange
    \/ EntryEnd
    \/ Ceiling
    \/ SweepBlockEnd
    \/ SweepStoreIdent
    \/ SweepIfExpr
    \/ SweepGoto
    \/ SweepCall
    \/ SweepOther
    \/ DoBinaryExpr
    \/ DoConcat
    \/ DoUnaryExpr
    \/ DoLoadConst
    \/ DoLoadIdent
    \/ DoStoreIdent
    \/ DoIfExpr
    \/ DoCompoundGet
    \/ DoCompoundSet
    \/ DoCompoundCreate
    \/ DoGoto
    \/ DoCall
    \/ DoReturn
    \/ DoDiscard
    \/ DoExternCall
    \/ ParseDeclAssign
    \/ ParseAssign
    \/ ParseAssignArray
    \/ ParseFuncCall
    \/ ParseReturn
    \/ ParseBlock
    \/ ParseIf
    \/ ParseElse
    \/ ParseWhile
    \/ ParseFunc
    \/ ParseExternFunc
    \/ ParseClose
    \/ Program

Spec == Init /\ [][Next]_vars


\* ================================================================ claims
\* The labels an instruction names: the arms of an IfExpr, the target of a
\* Goto or a Call.
InstrLabels(instr) ==
    CASE instr[1] = "IfExpr" -> { instr[2], instr[3] }
      [] instr[1] \in { "Goto", "Call" } -> { instr[2] }
      [] OTHER -> {}

BlockSuccessors(b) ==
    UNION { InstrLabels(Blk(b)[k]) : k \in 1..Len(Blk(b)) } \ { CONTINUE }

\* The blocks reachable from a set of blocks through IfExpr arms, Goto
\* targets and Call targets.
RECURSIVE ReachableFrom(_)
ReachableFrom(S) ==
    LET T == S \cup UNION { BlockSuccessors(b) : b \in S }
    IN  IF T = S THEN S ELSE ReachableFrom(T)

\* The blocks reachable from the arms of the IfExpr that started the sweep.
SweepReach == ReachableFrom({ sweep.if_true, sweep.if_false } \ { CONTINUE })

\* The addresses targeted by a StoreIdent in a set of blocks.
StoreTargets(S) ==
    { Blk(pos[1])[pos[2]][2] :
        pos \in { q \in UNION { { << b, k >> : k \in 1..Len(Blk(b)) } : b \in S } :
                    Blk(q[1])[q[2]][1] = "StoreIdent" } }

\* The step just taken left side-effect mode through the empty work queue.
SweepExited ==
    /\ prev.kind = "SweepBlockEnd"
    /\ prev.evaluating_side_effects
    /\ ~evaluating_side_effects
    /\ status = "running"

\* C1: when a sweep started by a Waiting IfExpr has run to its exit, every
\* address targeted by a StoreIdent in a block reachable from either arm
\* holds Waiting, also when both arms store the same literal.
C1_SpeculativeSoundness ==
    SweepExited =>
        \A a \in StoreTargets(SweepReach) : is_waiting(variables[a + 1])

\* C1 witness: a sweep over two different arms that store the same literal
\* into the same variable has exited, and the variable held a concrete
\* value before.
C1_Witness ==
    /\ SweepExited
    /\ sweep.if_true # CONTINUE /\ sweep.if_false # CONTINUE
    /\ sweep.if_true # sweep.if_false
    /\ Blk(sweep.if_true) = Blk(sweep.if_false)
    /\ \E a \in StoreTargets(SweepReach) :
          /\ is_integer(sweep.variables[a + 1])
          /\ is_waiting(variables[a + 1])

\* C2: during a sweep and at its exit every address that is not targeted
\* by a StoreIdent reachable from the arms holds the value it held when the
\* sweep started.
C2_SpeculativeFrame ==
    (evaluating_side_effects \/ SweepExited)
    => /\ Len(variables) = Len(sweep.variables)
       /\ \A a \in 0..(Len(variables) - 1) :
             a \notin StoreTargets(SweepReach)
                => variables[a + 1] = sweep.variables[a + 1]

\* C2 witness: a sweep through nested arms, a Goto and a Call has exited;
\* a variable written by a block outside the arms kept its concrete value
\* while another one was turned into Waiting.
C2_Witness ==
    /\ SweepExited
    /\ Cardinality(SweepReach) > 2
    /\ \E a \in 0..(Len(variables) - 1) :
          /\ a \notin StoreTargets(SweepReach)
          /\ is_integer(variables[a + 1])
    /\ \E a \in StoreTargets(SweepReach) :
          ~is_waiting(sweep.variables[a + 1]) /\ is_waiting(variables[a + 1])


\* ------------------------------------------------------------ contagion
\* The operands of the instruction just executed, as they lay on the
\* operand stack before it: Operand(1) was on top.
Operand(k) == prev.eval_stack[Len(prev.eval_stack) - k + 1]

\* The instruction just executed pushed Waiting in place of its n operands
\* and raised no error.
PushedWaiting(n) ==
    /\ status # "panic"
    /\ eval_stack = Append(DropLast(prev.eval_stack, n), Waiting)

\* C3: BinaryExpr with an arithmetic or relational operator and a Waiting
\* operand pushes exactly one Waiting and raises no type error, whatever
\* the other operand is.
C3_BinaryContagion ==
    ( /\ prev.kind = "BinaryExpr"
      /\ prev.instr[2] \in ArithOps \cup RelOps
      /\ Len(prev.eval_stack) >= 2
      /\ (is_waiting(Operand(1)) \/ is_waiting(Operand(2))) )
    => PushedWaiting(2)

\* C3 witness: a BinaryExpr whose first-popped operand is a string and
\* whose second is Waiting has pushed Waiting.
C3_Witness ==
    /\ prev.kind = "BinaryExpr"
    /\ Len(prev.eval_stack) >= 2
    /\ is_string(Operand(1)) /\ is_waiting(Operand(2))
    /\ PushedWaiting(2)

\* C4 (as claimed): Concat with a Waiting operand, the other operand being
\* a string or Waiting too, pushes Waiting instead of failing.
C4_ConcatContagion ==
    ( /\ prev.kind = "Concat"
      /\ Len(prev.eval_stack) >= 2
      /\ (is_waiting(Operand(1)) \/ is_waiting(Operand(2)))
      /\ \A k \in 1..2 : is_waiting(Operand(k)) \/ is_string(Operand(k)) )
    => PushedWaiting(2)

\* C5 (as claimed): UnaryExpr '-' or '!' with a Waiting operand pushes
\* Waiting.
C5_UnaryContagion ==
    ( /\ prev.kind = "UnaryExpr"
      /\ prev.instr[2] \in { "-", "!" }
      /\ Len(prev.eval_stack) >= 1
      /\ is_waiting(Operand(1)) )
    => PushedWaiting(1)

\* The operands of CompoundSet that are not Waiting have the tags emission
\* gives them: a compound, and an integer index inside it.
SetOperandsWellTyped ==
    /\ is_waiting(Operand(3)) \/ is_compound(Operand(3))
    /\ is_waiting(Operand(2)) \/ is_integer(Operand(2))
    /\ (is_compound(Operand(3)) /\ is_integer(Operand(2)))
          => (Operand(2)[2] >= 0 /\ Operand(2)[2] < Len(Operand(3)[2]))

\* C6 (as claimed): CompoundCreate, CompoundGet and CompoundSet push
\* Waiting when any of their operands is Waiting (for CompoundSet: the
\* compound, the index or the value).
C6_CompoundContagionOriginal ==
    /\ ( /\ prev.kind = "CompoundCreate"
         /\ Len(prev.eval_stack) >= 1
         /\ is_waiting(Operand(1)) )
       => PushedWaiting(1)
    /\ ( /\ prev.kind = "CompoundGet"
         /\ Len(prev.eval_stack) >= 2
         /\ (is_waiting(Operand(1)) \/ is_waiting(Operand(2))) )
       => PushedWaiting(2)
    /\ ( /\ prev.kind = "CompoundSet"
         /\ Len(prev.eval_stack) >= 3
         /\ (is_waiting(Operand(1)) \/ is_waiting(Operand(2)) \/ is_waiting(Operand(3)))
         /\ SetOperandsWellTyped )
       => PushedWaiting(3)

\* The case in which C6 differs from the code: CompoundSet with a Waiting
\* value, a concrete compound and an index inside it.
SetOfWaitingValue ==
    /\ prev.kind = "CompoundSet"
    /\ Len(prev.eval_stack) >= 3
    /\ is_waiting(Operand(1))
    /\ is_integer(Operand(2))
    /\ is_compound(Operand(3))
    /\ Operand(2)[2] >= 0 /\ Operand(2)[2] < Len(Operand(3)[2])

\* C6 (amended): a Waiting length, a Waiting compound or a Waiting index
\* yields Waiting; a Waiting value set into a concrete compound at an index
\* inside it yields the compound with Waiting in that slot and the other
\* slots unchanged.
C6_CompoundContagion ==
    /\ ( /\ prev.kind = "CompoundCreate"
         /\ Len(prev.eval_stack) >= 1
         /\ is_waiting(Operand(1)) )
       => PushedWaiting(1)
    /\ ( /\ prev.kind = "CompoundGet"
         /\ Len(prev.eval_stack) >= 2
         /\ (is_waiting(Operand(1)) \/ is_waiting(Operand(2))) )
       => PushedWaiting(2)
    /\ ( /\ prev.kind = "CompoundSet"
         /\ Len(prev.eval_stack) >= 3
         /\ (is_waiting(Operand(2)) \/ is_waiting(Operand(3))) )
       => PushedWaiting(3)
    /\ SetOfWaitingValue
       => /\ status # "panic"
          /\ Len(eval_stack) = Len(prev.eval_stack) - 2
          /\ DropLast(eval_stack, 1) = DropLast(prev.eval_stack, 3)
          /\ is_compound(Last(eval_stack))
          /\ Len(Last(eval_stack)[2]) = Len(Operand(3)[2])
          /\ \A k \in 1..Len(Operand(3)[2]) :
                IF k = Operand(2)[2] + 1
                THEN is_waiting(Last(eval_stack)[2][k])
                ELSE Last(eval_stack)[2][k] = Operand(3)[2][k]

\* C6 witness: a Waiting value has been set into a concrete compound, and
\* the result on the stack is a compound.
C6_Witness ==
    /\ SetOfWaitingValue
    /\ status = "running"
    /\ is_compound(Last(eval_stack))

\* --------------------------------------------------------- control flow
\* The last step executed an instruction in normal mode (it was neither
\* the end of the entry block nor stopped by the step ceiling).
NormalExecuted ==
    /\ prev.kind \notin { "init", "FetchOutOfRange", "EntryEnd" }
    /\ ~prev.evaluating_side_effects
    /\ prev.cycles + 1 <= MaxCycles

\* The arm selected by the boolean the IfExpr just executed has popped.
SelectedArm == IF Operand(1)[2] THEN prev.instr[2] ELSE prev.instr[3]

\* The position after the one given.
After(p) == << p[1], p[2] + 1 >>

\* C8: in normal mode IfExpr pops one value; Bool(true) transfers to
\* (if_true, 0), Bool(false) to (if_false, 0); a selected CONTINUE arm
\* transfers nowhere, leaves the call stack alone and continues with the
\* next instruction; a value that is neither Bool nor Waiting is fatal.
C8_IfExprNormal ==
    ( NormalExecuted /\ prev.instr[1] = "IfExpr" /\ prev.eval_stack # <<>> )
    => /\ is_bool(Operand(1))
          => /\ status = "running"
             /\ ~evaluating_side_effects
             /\ eval_stack = Front(prev.eval_stack)
             /\ SelectedArm # CONTINUE => ip = << SelectedArm, 0 >>
             /\ SelectedArm = CONTINUE
                   => ip = After(prev.ip) /\ call_stack = prev.call_stack
       /\ (~is_bool(Operand(1)) /\ ~is_waiting(Operand(1)))
          => status = "panic"

\* C8 witness: IfExpr popped Bool(false) with if_false = CONTINUE and a
\* block as if_true, and execution went on in the same block.
C8_Witness ==
    /\ NormalExecuted /\ prev.instr[1] = "IfExpr" /\ prev.eval_stack # <<>>
    /\ is_bool(Operand(1)) /\ ~Operand(1)[2]
    /\ prev.instr[3] = CONTINUE /\ prev.instr[2] # CONTINUE
    /\ ip = After(prev.ip)
    /\ status = "running"

\* The last step was a transfer in normal mode: Goto, Call, or an IfExpr
\* that took an arm other than CONTINUE.
Transferred ==
    /\ NormalExecuted
    /\ \/ prev.instr[1] \in { "Goto", "Call" }
       \/ /\ prev.instr[1] = "IfExpr"
          /\ prev.eval_stack # <<>>
          /\ is_bool(Operand(1))
          /\ SelectedArm # CONTINUE

TransferTarget ==
    IF prev.instr[1] = "IfExpr" THEN SelectedArm ELSE prev.instr[2]

\* The last step was a Return (explicit or by falling off a block) in
\* normal mode, taken while a transfer had not returned yet.
Returned ==
    /\ NormalExecuted
    /\ prev.instr[1] = "Return"
    /\ prev.xfers # <<>>

\* C9: in normal mode a transfer pushes exactly one continuation and jumps
\* to instruction 0 of its target; the Return that ends the target resumes
\* right after the transferring instruction, in the same block, with the
\* call stack as deep as it was before the transfer.
C9_TransferAndReturn ==
    /\ Len(call_stack) = Len(xfers)
    /\ Transferred
          => /\ status = "running"
             /\ Len(call_stack) = Len(prev.call_stack) + 1
             /\ DropLast(call_stack, 1) = prev.call_stack
             /\ ip = << TransferTarget, 0 >>
    /\ Returned
          => /\ status = "running"
             /\ ip = After(Last(prev.xfers).from)
             /\ Len(call_stack) = Last(prev.xfers).depth
             /\ call_stack = DropLast(prev.call_stack, 1)

\* C9 witness: a block entered by a transfer made inside another
\* transferred-to block has returned to the position after that transfer.
C9_Witness ==
    /\ Returned
    /\ Len(prev.xfers) >= 2
    /\ ip = After(Last(prev.xfers).from)
    /\ Len(call_stack) = Len(prev.call_stack) - 1

\* The last step found ip past the last instruction of its block.
FellOff ==
    /\ prev.kind \notin { "init", "FetchOutOfRange" }
    /\ prev.ip[2] >= Len(Blk(prev.ip[1]))

\* What an explicit Return does: resume after the popped continuation, or
\* end execute() when the call stack is empty.
ReturnEffect ==
    IF prev.call_stack = <<>>
    THEN status = "done"
    ELSE /\ status = "running"
         /\ ip = After(Last(prev.call_stack))
         /\ call_stack = Front(prev.call_stack)

\* A Return instruction of the block table was fetched with an empty call
\* stack.
ReturnOnEmptyStack ==
    /\ prev.kind \notin { "init", "FetchOutOfRange", "EntryEnd" }
    /\ ~FellOff
    /\ prev.instr[1] = "Return"
    /\ prev.call_stack = <<>>

\* C10 (as claimed): a Return with an empty call stack ends execute();
\* running past the end of the entry block ends execute(); running past
\* the end of any other block pops the call stack and resumes there, or
\* ends execute() if the call stack is empty (a step stopped by the step
\* ceiling executes no instruction and is left out).
C10_TerminationOriginal ==
    /\ ReturnOnEmptyStack => status = "done"
    /\ (FellOff /\ prev.ip[1] = entrypoint) => status = "done"
    /\ (FellOff /\ prev.ip[1] # entrypoint /\ prev.cycles + 1 <= MaxCycles)
          => ReturnEffect

\* C10 (amended): the third part holds in normal mode, where running past
\* the end of a block and an explicit Return have the same effect; in
\* side-effect mode the end of a block takes the next block of the work
\* queue instead.
C10_Termination ==
    /\ ReturnOnEmptyStack => status = "done"
    /\ (FellOff /\ prev.ip[1] = entrypoint) => status = "done"
    /\ (NormalExecuted /\ FellOff /\ prev.ip[1] # entrypoint)
          => /\ ReturnEffect
             /\ eval_stack = prev.eval_stack /\ variables = prev.variables
    /\ (NormalExecuted /\ ~FellOff /\ prev.instr[1] = "Return")
          => /\ ReturnEffect
             /\ eval_stack = prev.eval_stack /\ variables = prev.variables

\* C10 witness: in normal mode the end of a block other than the entry
\* block was passed with a continuation on the call stack, and execution
\* resumed after it.
C10_Witness ==
    /\ NormalExecuted /\ FellOff /\ prev.ip[1] # entrypoint
    /\ prev.call_stack # <<>>
    /\ ip = After(Last(prev.call_stack))
    /\ status = "running"

\* ------------------------------------------------------ side-effect mode
\* The last step was an IfExpr that popped Waiting in normal mode.
SweepEntered ==
    /\ NormalExecuted
    /\ prev.instr[1] = "IfExpr"
    /\ prev.eval_stack # <<>>
    /\ is_waiting(Operand(1))

\* C11: an IfExpr that pops Waiting in normal mode sets the mode flag,
\* pushes its own position onto the call stack once, appends if_false to
\* the work queue and continues at instruction 0 of if_true; a CONTINUE
\* taken off the work queue is never entered as a block; the flag is set by
\* no other step.
C11_SweepEntry ==
    /\ SweepEntered
          => /\ status = "running"
             /\ evaluating_side_effects
             /\ eval_stack = Front(prev.eval_stack)
             /\ call_stack = Append(prev.call_stack, prev.ip)
             /\ blocks_to_eval = Append(prev.blocks_to_eval, prev.instr[3])
             /\ ip = << prev.instr[2], 0 >>
             /\ variables = prev.variables
    /\ (prev.kind = "SweepBlockEnd" /\ status = "running") => ip[1] # CONTINUE
    /\ (evaluating_side_effects /\ ~prev.evaluating_side_effects) => SweepEntered

\* C11 witness: an IfExpr with a block as if_true and CONTINUE as if_false
\* popped Waiting and the sweep of if_true has started.
C11_Witness ==
    /\ SweepEntered
    /\ prev.instr[2] # CONTINUE /\ prev.instr[3] = CONTINUE
    /\ evaluating_side_effects
    /\ ip = << prev.instr[2], 0 >>
    /\ Last(blocks_to_eval) = CONTINUE

\* The labels in a sequence are pairwise different.
NoRepeat(s) == \A i, j \in 1..Len(s) : s[i] = s[j] => i = j

\* C12: within one sweep no block is entered more than once.
C12_VisitedOnce ==
    evaluating_side_effects => NoRepeat(sweep.entered)

\* C13: a sweep that was entered is left again: execute() does not return
\* with the mode flag set, and the step that leaves the mode finds the work
\* queue empty and resumes in normal mode right after the IfExpr that
\* started the sweep, with the call stack as it was before that IfExpr.
C13_SweepExits ==
    /\ status = "done" => ~evaluating_side_effects
    /\ SweepExited
          => /\ ip = After(sweep.at)
             /\ call_stack = sweep.call_stack
             /\ blocks_to_eval = <<>>

\* C14: while the mode flag is set, and at the step that clears it, the
\* registry has been handed no invocation and no per-name counter has
\* changed since the sweep started.
C14_NoSpeculativeExtern ==
    (evaluating_side_effects \/ SweepExited)
    => /\ extern_log = sweep.extern_log
       /\ extern_func_call_count = sweep.extern_func_call_count

\* C14 witness: the sweep has passed over the ExternCall of an extern
\* function called from an arm, and the registry saw nothing of it.
C14_Witness ==
    /\ evaluating_side_effects
    /\ prev.evaluating_side_effects
    /\ prev.instr[1] = "ExternCall"
    /\ status = "running"
    /\ ip = After(prev.ip)
    /\ extern_log = sweep.extern_log

\* C15: the step counter never passes the ceiling by more than the one
\* increment that stops the run; every step of a running execute() adds one
\* to it; the step that finds the ceiling exceeded executes nothing and
\* ends execute() the way normal completion does.
C15_StepCeiling ==
    /\ cycles <= MaxCycles + 1
    /\ (status = "running" /\ prev.kind # "init") => cycles = prev.cycles + 1
    /\ status = "running" => cycles <= MaxCycles
    /\ cycles > MaxCycles
          => /\ status = "done"
             /\ prev.cycles = MaxCycles
             /\ ip = prev.ip
             /\ eval_stack = prev.eval_stack
             /\ variables = prev.variables
             /\ call_stack = prev.call_stack
             /\ extern_log = prev.extern_log

\* C15 witness: a run was stopped by the ceiling in the middle of a block.
C15_Witness ==
    /\ cycles = MaxCycles + 1
    /\ status = "done"
    /\ ValidBlock(ip[1])
    /\ ip[2] < Len(Blk(ip[1]))

\* --------------------------------------------------------- extern calls
\* The last step was an ExternCall that reached the registry.
ExternCalled ==
    /\ NormalExecuted
    /\ prev.instr[1] = "ExternCall"
    /\ status = "running"

\* C16: ExternCall with N parameter types takes the name from the top of
\* the operand stack and the N values below it, hands them to the function
\* in the order they were pushed, and pushes the returned values in order;
\* the operand stack below those N+1 entries is unchanged.
C16_ExternCallParams ==
    ExternCalled
    => LET n == Len(prev.instr[2])
           top == Len(prev.eval_stack)
           e == Last(extern_log)
       IN  /\ Len(extern_log) = Len(prev.extern_log) + 1
           /\ e.name = Operand(1)[2]
           /\ e.params = SubSeq(prev.eval_stack, top - n, top - 1)
           /\ eval_stack = SubSeq(prev.eval_stack, 1, top - n - 1) \o e.returns
           /\ e.name \notin HttpExterns => e.returns = external_functions[e.name]

\* C16 witness: a function of two parameters returning two values was
\* invoked with another value lying below its parameters.
C16_Witness ==
    /\ ExternCalled
    /\ Len(prev.instr[2]) = 2
    /\ Len(prev.eval_stack) = 4
    /\ Last(extern_log).params = << IntV(1), StrV("a") >>
    /\ Len(eval_stack) = 3
    /\ eval_stack[1] = IntV(7)

\* The invocations before the j-th that had the same function name.
EarlierSameName(j) ==
    { i \in 1..(j - 1) : extern_log[i].name = extern_log[j].name }

\* C17: the id handed to the registry is (b, i, k) with (b, i) the top of
\* the call stack, which is the Call instruction that entered the extern
\* block, and k the number of earlier invocations of the same name.
C17_CallSiteIdentity ==
    /\ \A j \in 1..Len(extern_log) :
          extern_log[j].id[3] = Cardinality(EarlierSameName(j))
    /\ \A n \in ExternNames :
          extern_func_call_count[n] =
             Cardinality({ i \in 1..Len(extern_log) : extern_log[i].name = n })
    /\ ExternCalled
          => LET e == Last(extern_log)
             IN  /\ << e.id[1], e.id[2] >> = Last(prev.call_stack)
                 /\ Blk(e.id[1])[e.id[2] + 1] = Call(prev.ip[1])

\* C17 witness: a name was invoked for the third time, from another call
\* site than before, after an invocation of a different name.
C17_Witness ==
    /\ ExternCalled
    /\ Last(extern_log).id[3] = 2
    /\ \E i \in 1..Len(extern_log) :
          /\ extern_log[i].name # Last(extern_log).name
          /\ extern_log[i].id[3] = 0
    /\ \E i \in 1..Len(extern_log) :
          /\ extern_log[i].name = Last(extern_log).name
          /\ extern_log[i].id[1] # Last(extern_log).id[1]

\* The last step was an ExternCall naming a function the registry lacks.
UnknownExternCalled ==
    /\ NormalExecuted
    /\ prev.instr[1] = "ExternCall"
    /\ prev.eval_stack # <<>>
    /\ is_string(Operand(1))
    /\ Operand(1)[2] \notin DOMAIN external_functions

\* C18: an ExternCall of an unregistered name ends the run with a fatal
\* error; nothing is pushed, no variable is written and no invocation
\* counter changes.
C18_UnknownExtern ==
    UnknownExternCalled
    => /\ status = "panic"
       /\ Len(eval_stack) <= Len(prev.eval_stack)
       /\ variables = prev.variables
       /\ extern_func_call_count = prev.extern_func_call_count
       /\ extern_log = prev.extern_log

\* C18 witness: the unregistered function u was called and the run ended.
C18_Witness ==
    /\ UnknownExternCalled
    /\ Operand(1)[2] = "u"
    /\ prev.call_stack # <<>>
    /\ status = "panic"

\* ------------------------------------------------------------- provider
\* The last step was the ExternCall of the HTTP extern e, declared with one
\* parameter, with the name and a parameter on the operand stack.
EchoCalled ==
    /\ NormalExecuted
    /\ prev.instr[1] = "ExternCall"
    /\ Len(prev.instr[2]) = 1
    /\ Len(prev.eval_stack) >= 2
    /\ prev.call_stack # <<>>
    /\ Operand(1) = StrV("e")

\* The static type of the parameter and its value.
EchoType == prev.instr[2][1]
EchoParam == Operand(2)

\* val is a value of type typ, for the types Integer, Float, Bool, String,
\* Array and Struct.
RECURSIVE WellTyped(_, _)
WellTyped(typ, val) ==
    CASE typ[1] = "Integer" -> is_integer(val)
      [] typ[1] = "Float" -> is_float(val)
      [] typ[1] = "Bool" -> is_bool(val)
      [] typ[1] = "String" -> is_string(val)
      [] typ[1] = "Array" ->
            /\ is_compound(val)
            /\ \A k \in 1..Len(val[2]) : WellTyped(typ[2], val[2][k])
      [] typ[1] = "Struct" ->
            /\ typ[2] \in DOMAIN user_structs
            /\ is_compound(val)
            /\ Len(val[2]) = Len(user_structs[typ[2]].types)
            /\ \A k \in 1..Len(val[2]) :
                  WellTyped(user_structs[typ[2]].types[k], val[2][k])
      [] OTHER -> FALSE

\* C19: a value that is well typed for its type, serialized against the
\* type and deserialized against the same type, comes back as itself.
C19_RoundTrip ==
    ( EchoCalled /\ prev.instr[3] = prev.instr[2]
                 /\ WellTyped(EchoType, EchoParam) )
    => /\ status = "running"
       /\ eval_stack = Append(DropLast(prev.eval_stack, 2), EchoParam)

\* The JSON written for slot k of a serialized array or struct.
JsonSlot(json, k) == IF json[1] = "map" THEN json[2][k][2] ELSE json[2][k]

\* C20: a Waiting parameter is written as {"$waiting": true} whatever its
\* static type among Integer, Float, Bool, String, Array and Struct, and so
\* is a Waiting element of an array or field of a struct.
C20_WaitingSerialization ==
    ( EchoCalled /\ EchoType # WaitingType )
    => /\ is_waiting(EchoParam)
          => /\ status = "running"
             /\ Last(extern_log).request = JsonSeq(<< WaitingMarker >>)
       /\ ( /\ is_compound(EchoParam)
            /\ EchoType[1] \in { "Array", "Struct" }
            /\ \E k \in 1..Len(EchoParam[2]) : is_waiting(EchoParam[2][k]) )
          => /\ status = "running"
             /\ \A k \in 1..Len(EchoParam[2]) :
                   is_waiting(EchoParam[2][k])
                      => JsonSlot(Last(extern_log).request[2][1], k) = WaitingMarker

\* ---------------------------------------------------- provider responses
\* The last step was the ExternCall of the HTTP extern r, whose provider
\* answers with the body held by the registry.
RespondCalled ==
    /\ NormalExecuted
    /\ prev.instr[1] = "ExternCall"
    /\ prev.eval_stack # <<>>
    /\ prev.call_stack # <<>>
    /\ Operand(1) = StrV("r")

RespTypes == prev.instr[3]
RespBody == external_functions["r"]

\* What the call left on the operand stack in place of the name.
RespReturned == SubSeq(eval_stack, Len(prev.eval_stack), Len(eval_stack))

\* The keys of a JSON object are the declared fields of the struct, each
\* of them once.
KeysAreFields(stru, entries) ==
    /\ Len(entries) = Len(stru.types)
    /\ \A k \in 1..Len(entries) : entries[k][1] \in DOMAIN stru.names
    /\ \A i, j \in 1..Len(entries) : entries[i][1] = entries[j][1] => i = j

\* json is the Waiting marker or JSON of the kind of typ, and so are the
\* elements of an array and the field values of a struct object.
RECURSIVE Fits(_, _)
Fits(typ, json) ==
    \/ json = WaitingMarker
    \/ CASE typ[1] = "Integer" -> json[1] \in { "int", "float" }
          [] typ[1] = "Float" -> json[1] \in { "int", "float" }
          [] typ[1] = "Bool" -> json[1] = "bool"
          [] typ[1] = "String" -> json[1] = "str"
          [] typ[1] = "Array" ->
                /\ json[1] = "seq"
                /\ \A k \in 1..Len(json[2]) : Fits(typ[2], json[2][k])
          [] typ[1] = "Struct" ->
                /\ json[1] = "map"
                /\ typ[2] \in DOMAIN user_structs
                /\ KeysAreFields(user_structs[typ[2]], json[2])
                /\ \A k \in 1..Len(json[2]) :
                      Fits(user_structs[typ[2]].types[
                               user_structs[typ[2]].names[json[2][k][1]] + 1],
                           json[2][k][2])
          [] OTHER -> FALSE

\* val has Waiting wherever json has the Waiting marker: in place of the
\* value, of an array element or of the value of a struct field.
RECURSIVE MarkerDecoded(_, _, _)
MarkerDecoded(typ, json, val) ==
    IF json = WaitingMarker THEN val = Waiting
    ELSE CASE typ[1] = "Array" ->
                /\ is_compound(val)
                /\ Len(val[2]) = Len(json[2])
                /\ \A k \in 1..Len(json[2]) :
                      MarkerDecoded(typ[2], json[2][k], val[2][k])
           [] typ[1] = "Struct" ->
                /\ is_compound(val)
                /\ Len(val[2]) = Len(user_structs[typ[2]].types)
                /\ \A k \in 1..Len(json[2]) :
                      LET idx == user_structs[typ[2]].names[json[2][k][1]]
                      IN  MarkerDecoded(user_structs[typ[2]].types[idx + 1],
                                        json[2][k][2], val[2][idx + 1])
           [] OTHER -> ~is_waiting(val)

\* C21: the object {"$waiting": true} deserializes to Waiting against
\* Integer, Float, Bool, String, Array and Struct, also as an element of an
\* array and as the value of a struct field; the values around it are
\* deserialized as values.
C21_MarkerDeserializes ==
    ( /\ RespondCalled
      /\ RespTypes # <<>>
      /\ RespBody[1] = "seq"
      /\ Len(RespBody[2]) = Len(RespTypes)
      /\ \A k \in 1..Len(RespTypes) : Fits(RespTypes[k], RespBody[2][k]) )
    => /\ status = "running"
       /\ Len(RespReturned) = Len(RespTypes)
       /\ \A k \in 1..Len(RespTypes) :
             MarkerDecoded(RespTypes[k], RespBody[2][k], RespReturned[k])

\* C21 witness: a response for struct Q with the marker as the value of
\* field p and as the first element of the array in field l was taken.
C21_Witness ==
    /\ RespondCalled
    /\ RespTypes = << Struct("Q") >>
    /\ RespBody[1] = "seq" /\ Len(RespBody[2]) = 1
    /\ RespBody[2][1] # WaitingMarker
    /\ status = "running"
    /\ is_compound(Last(eval_stack))
    /\ Last(eval_stack)[2][1] = Waiting
    /\ Last(eval_stack)[2][2][2][1] = Waiting
    /\ is_compound(Last(eval_stack)[2][2][2][2])

\* val is Waiting or carries the tag of typ, and so do the elements of an
\* array and the slots of a struct, one slot per declared field.
RECURSIVE Conforms(_, _)
Conforms(typ, val) ==
    \/ is_waiting(val)
    \/ CASE typ[1] = "Integer" -> is_integer(val)
          [] typ[1] = "Float" -> is_float(val)
          [] typ[1] = "Bool" -> is_bool(val)
          [] typ[1] = "String" -> is_string(val)
          [] typ[1] = "Array" ->
                /\ is_compound(val)
                /\ \A k \in 1..Len(val[2]) : Conforms(typ[2], val[2][k])
          [] typ[1] = "Struct" ->
                /\ typ[2] \in DOMAIN user_structs
                /\ is_compound(val)
                /\ Len(val[2]) = Len(user_structs[typ[2]].types)
                /\ \A k \in 1..Len(val[2]) :
                      Conforms(user_structs[typ[2]].types[k], val[2][k])
          [] OTHER -> FALSE

\* The body is an array with one element for each return type, each of the
\* JSON kind of its type.
RespFits ==
    /\ RespBody[1] = "seq"
    /\ Len(RespBody[2]) = Len(RespTypes)
    /\ \A k \in 1..Len(RespTypes) : Fits(RespTypes[k], RespBody[2][k])

\* C22 (as claimed): the call of an HTTP extern either ends the run with a
\* fatal error or pushes exactly one value for each declared return type,
\* each of them conforming to its type; a body with too few elements, with
\* a value of the wrong JSON kind or with a struct object that lacks a
\* declared field ends the run.
C22_ResponsesConform ==
    RespondCalled
    => /\ \/ status = "panic"
          \/ /\ status = "running"
             /\ Len(RespReturned) = Len(RespTypes)
             /\ \A k \in 1..Len(RespTypes) :
                   Conforms(RespTypes[k], RespReturned[k])
       /\ ~RespFits => status = "panic"

\* ------------------------------------------------------------- functions
\* The last step was the Return, explicit or by falling off the end of a
\* block, that took control back to the caller of the function: it popped
\* the continuation the Call of the function's block had pushed.
ReturnedFrom(name) ==
    /\ Returned
    /\ status = "running"
    /\ Last(prev.xfers).instr = Call(user_functions[name].label)

\* The operand stack of the caller when it executed the Call.
StackAtCall == Last(prev.xfers).eval_stack

\* C23: call symmetry.  Whenever the body of a declared function returns
\* to its caller, by an explicit Return or by the Return at the end of the
\* body, the operand stack holds, above the entries the caller had below
\* the arguments, exactly as many values as the function declares return
\* types.
C23_CallSymmetry ==
    \A name \in DOMAIN user_functions :
        ReturnedFrom(name)
        => Len(eval_stack) = Len(StackAtCall) - Len(user_functions[name].params)
                             + Len(user_functions[name].returns)

\* The functions the program declares with a body.
RegularFunctions ==
    { parser.src[k][2] : k \in { j \in 1..Len(parser.src) : parser.src[j][1] = "Func" } }
    \cap DOMAIN user_functions

\* The address the declaration of the i-th parameter of a function got.
ParamAddr(name, i) ==
    LET d == CHOOSE d \in { parser.decls[k] : k \in 1..Len(parser.decls) } :
                 d.func = name /\ d.pos = i
    IN  d.addr

\* The callee has just stored its parameters: control is in the block of
\* the function, right after the stores, and the last transfer is the Call.
Entered(name) ==
    /\ status = "running"
    /\ ~evaluating_side_effects
    /\ xfers # <<>>
    /\ Last(xfers).instr = Call(user_functions[name].label)
    /\ Len(call_stack) = Last(xfers).depth + 1
    /\ ip = << user_functions[name].label, Len(user_functions[name].params) >>

\* The i-th of the n arguments the caller had pushed when it executed Call.
Argument(n, i) ==
    Last(xfers).eval_stack[Len(Last(xfers).eval_stack) - n + i]

\* Control is in the entry block, at the given instruction, outside every
\* transfer.
AtEntry(index) ==
    /\ status \in { "running", "done" }
    /\ ~evaluating_side_effects
    /\ call_stack = <<>>
    /\ ip = << entrypoint, index >>

\* C24: function calls.  The callee binds the i-th argument the caller
\* pushed to its i-th parameter, the arguments being pushed left to right;
\* a call used as an expression leaves the single value the callee returns
\* for the enclosing expression (in the functions program p = 4, q = 7,
\* r = sub(9, 10) = -1 and s = sub(r, 5) + 1 = -5); a call used as a
\* statement leaves the operand stack as it was before the call: empty at
\* the first instruction of the statement and empty again after its
\* Discards.
C24_FunctionCalls ==
    /\ \A name \in RegularFunctions :
          Entered(name)
          => \A i \in 1..Len(user_functions[name].params) :
                variables[ParamAddr(name, i) + 1]
                    = Argument(Len(user_functions[name].params), i)
    /\ parser.src = Programs.functions
          => /\ status # "panic"
             /\ status = "done"
                   => /\ variables[2] = IntV(4)
                      /\ variables[5] = IntV(7)
                      /\ variables[8] = IntV(-1)
                      /\ variables[9] = IntV(-5)
    /\ \A k \in 1..Len(parser.calls) :
          parser.calls[k].depth = 0
          => /\ AtEntry(parser.calls[k].first) => eval_stack = <<>>
             /\ AtEntry(parser.calls[k].next) => eval_stack = <<>>

\* ----------------------------------------------------------------- loops
\* C25: a while loop with a concrete condition runs its body once for each
\* time the condition is true, sees the writes of the body when it
\* evaluates the condition again, and continues after the loop once the
\* condition is false.  In  i := 0; n := 0; while i < limit { n = n + 1;
\* i = i + 1; } r := n;  the body never runs more than limit times, r is
\* written only when i has reached limit, and the run ends with
\* i = n = r = limit.  The run of  p := 0; q := 1; while p < 200 { t := p + q;
\* q = p; p = t; } r := p;  never panics and ends below the step ceiling
\* with p = 233, q = 144 and r = 233.
C25_WhileLoop ==
    /\ \A limit \in 0..LoopLimit :
          (parser.src = CountTo(limit) /\ status # "parsing")
          => /\ status # "panic"
             /\ is_integer(variables[2]) => variables[2][2] <= limit
             /\ variables[3] # BoolV(FALSE)
                   => variables = << IntV(limit), IntV(limit), IntV(limit) >>
             /\ status = "done"
                   => /\ variables = << IntV(limit), IntV(limit), IntV(limit) >>
                      /\ cycles <= MaxCycles
    /\ (parser.src = Programs.fib /\ status # "parsing")
          => /\ status # "panic"
             /\ variables[4] # BoolV(FALSE)
                   => /\ variables[1] = IntV(233)
                      /\ variables[2] = IntV(144)
             /\ status = "done"
                   => /\ variables[1] = IntV(233)
                      /\ variables[2] = IntV(144)
                      /\ variables[4] = IntV(233)
                      /\ cycles <= MaxCycles

\* The Fibonacci program has run to its end, the loop left after p passed 200.
C25_Witness ==
    /\ parser.src = Programs.fib
    /\ status = "done"
    /\ variables[1] = IntV(233)
    /\ cycles > LoopLimit

\* ------------------------------------------------------------- compounds
\* CompoundSet was just executed in normal mode on a compound, an index
\* into it and a value, none of them Waiting.
SetExecuted ==
    /\ NormalExecuted
    /\ prev.kind = "CompoundSet"
    /\ Len(prev.eval_stack) >= 3
    /\ ValidIndex(Operand(3), Operand(2))
    /\ ~is_waiting(Operand(1))

\* The instructions the statement just parsed appended to its block.
LastEmitted ==
    SubSeq(parser.block, parser.last.emitted + 1, Len(parser.block))

\* C26: CompoundSet is copy-on-write.  On a compound, a valid index and a
\* value it replaces its three operands by a compound of the same length
\* that holds the value at the index and the elements of the popped
\* compound elsewhere, and writes no variable.  The statement q[i] = e
\* emits LoadIdent q, the index, the value, CompoundSet, StoreIdent q;
\* after  p := 5; q := [2, 2, 3, p]; q[0] = 1; p = q[0];  q is [1, 2, 3, 5]
\* and p is 1, and after  q := [1, 2]; r := q; i := 1; q[i] = q[0] + 4;
\* s := q[1]; t := r[1];  q is [1, 5], s is 5, and r, t still hold the
\* old elements.
C26_CopyOnWrite ==
    /\ SetExecuted
          => /\ status = "running"
             /\ variables = prev.variables
             /\ Len(eval_stack) = Len(prev.eval_stack) - 2
             /\ DropLast(eval_stack, 1) = DropLast(prev.eval_stack, 3)
             /\ is_compound(Last(eval_stack))
             /\ Len(Last(eval_stack)[2]) = Len(Operand(3)[2])
             /\ \A k \in 1..Len(Operand(3)[2]) :
                   Last(eval_stack)[2][k]
                       = IF k = Operand(2)[2] + 1 THEN Operand(1)
                         ELSE Operand(3)[2][k]
    /\ (status = "parsing" /\ parser.last.kind = "AssignArray")
          => /\ Len(LastEmitted) >= 5
             /\ LastEmitted[1] = LoadIdent(parser.last.addr)
             /\ SubSeq(LastEmitted, Len(LastEmitted) - 1, Len(LastEmitted))
                    = << CompoundSet, StoreIdent(parser.last.addr) >>
             /\ parser.last.addr
                    = get(parser.cur_scope, parser.last.name).addr
    /\ (parser.src = Programs.arrays /\ status # "parsing")
          => /\ status # "panic"
             /\ status = "done"
                   => variables = << IntV(1),
                                     CompoundV(<< IntV(1), IntV(2), IntV(3),
                                                  IntV(5) >>) >>
    /\ (parser.src = Programs.alias /\ status # "parsing")
          => /\ status # "panic"
             /\ status = "done"
                   => variables = << CompoundV(<< IntV(1), IntV(5) >>),
                                     CompoundV(<< IntV(1), IntV(2) >>),
                                     IntV(1), IntV(5), IntV(2) >>

\* The indexed assignment of the alias program has run: CompoundSet wrote
\* slot 1 of a copy of q while q itself and r still held [1, 2].
C26_Witness ==
    /\ parser.src = Programs.alias
    /\ SetExecuted
    /\ Operand(2) = IntV(1)
    /\ Last(eval_stack) = CompoundV(<< IntV(1), IntV(5) >>)
    /\ variables[1] = CompoundV(<< IntV(1), IntV(2) >>)
    /\ variables[2] = CompoundV(<< IntV(1), IntV(2) >>)

\* --------------------------------------------------------------- structs
\* The zero value of a DataType: 0, 0.0, false, "", the empty compound for
\* an array, and for a struct the compound of the zero values of its
\* fields in layout order.
RECURSIVE Zero(_)
Zero(ty) ==
    CASE ty = Integer -> IntV(0)
      [] ty = Float -> FloatV(0, 1)
      [] ty = Bool -> BoolV(FALSE)
      [] ty = String -> StrV("")
      [] ty[1] = "Array" -> CompoundV(<<>>)
      [] ty[1] = "Struct" ->
            CompoundV([j \in 1..Len(user_structs[ty[2]].types) |->
                          Zero(user_structs[ty[2]].types[j])])

\* The value of a struct literal whose fields are given by constants: one
\* slot per declared field, the constant where the field is given and the
\* zero value of the field's type where it is omitted.
LiteralValue(expr) ==
    LET strct == user_structs[expr[2]]
        Given(j) == { k \in 1..Len(expr[3]) : strct.names[expr[3][k][1]] = j - 1 }
    IN  CompoundV([j \in 1..Len(strct.types) |->
                      IF Given(j) # {}
                      THEN expr[3][CHOOSE k \in Given(j) : TRUE][2][2]
                      ELSE Zero(strct.types[j])])

\* The declarations name := expr of the program whose expression is of the
\* given kind (as indices into the source).
DeclsOf(kind) ==
    { k \in 1..Len(parser.src) :
        /\ parser.src[k][1] = "DeclAssign"
        /\ parser.src[k][3][1] = kind }

\* The value of a global variable of the program when the run has ended.
Global(name) == variables[get(parser.cur_scope, name).addr + 1]

\* C27: a struct literal evaluates to a compound with one slot per declared
\* field in layout order, holding the given value for a field the literal
\* gives and the recursive zero value of the field's type for a field it
\* omits; e.f yields the slot at the index the layout assigns to f.
\* Checked on the variables of the programs structs and defaults at the
\* end of their runs, which the programs reach without a panic.
C27_StructLiteral ==
    /\ parser.src \in { Programs.structs, Programs.defaults }
          => status # "panic"
    /\ (parser.src \in { Programs.structs, Programs.defaults } /\ status = "done")
          => /\ \A k \in DeclsOf("StructLiteral") :
                   Global(parser.src[k][2]) = LiteralValue(parser.src[k][3])
             /\ \A k \in DeclsOf("StructAccess") :
                   LET e == parser.src[k][3]
                       owner == get(parser.cur_scope, e[2][2])
                       layout == user_structs[owner.data_type[2]]
                   IN  Global(parser.src[k][2])
                          = Global(e[2][2])[2][layout.names[e[3]] + 1]
    /\ (parser.src = Programs.structs /\ status = "done")
          => variables = << CompoundV(<< IntV(5), FloatV(6, 1), FloatV(0, 1) >>),
                            IntV(5), FloatV(6, 1), FloatV(0, 1) >>

\* The run of the defaults program has ended: the literal A{s: "a", b: true}
\* holds the defaults of its four omitted fields, the nested struct Q among
\* them, and a.q.l read the empty compound out of it.
C27_Witness ==
    /\ parser.src = Programs.defaults
    /\ status = "done"
    /\ variables[1] = CompoundV(<< IntV(0), FloatV(0, 1), BoolV(TRUE), StrV("a"),
                                   CompoundV(<<>>),
                                   CompoundV(<< CompoundV(<< IntV(0), StrV("") >>),
                                                CompoundV(<<>>) >>) >>)
    /\ variables[4] = CompoundV(<<>>)

\* ---------------------------------------------------------------- scopes
\* The last statement parsed was accepted and was of the given kind.
JustParsed(kind) ==
    /\ status = "parsing"
    /\ parser.last.kind = kind

\* The scope chain before the last statement, without its innermost table.
OuterScope == SubSeq(parser.last.cur_scope, 1, Len(parser.last.cur_scope) - 1)

\* Every name some table of the scope chain before the last statement held.
NamesInScope ==
    UNION { DOMAIN parser.last.cur_scope[d] : d \in 1..Len(parser.last.cur_scope) }

\* C28: lexical scoping.  A declare-assign gets an address no earlier
\* declaration has, binds its name in the innermost table only (the tables
\* of the enclosing scopes stay as they were) and stores to that address;
\* a plain assignment stores to the address the innermost declaration in
\* scope has, which is the outer one when the block declares no such
\* name; when a block is closed every name resolves as it does in the
\* enclosing scopes.  So p := 5; q := 6; if true { p := 7; q := 6.0; } r := p;
\* ends with 5, 6, 7, 6.0, 5, and an assignment p = 7 inside the block
\* changes the outer p.
C28_LexicalScoping ==
    /\ JustParsed("DeclAssign")
          => /\ \A k \in 1..(Len(parser.decls) - 1) :
                   parser.decls[k].addr # parser.last.addr
             /\ Len(parser.cur_scope) = Len(parser.last.cur_scope)
             /\ \A d \in 1..(Len(parser.cur_scope) - 1) :
                   parser.cur_scope[d] = parser.last.cur_scope[d]
             /\ get(parser.cur_scope, parser.last.name).addr = parser.last.addr
             /\ \A n \in NamesInScope \ { parser.last.name } :
                   get(parser.cur_scope, n) = get(parser.last.cur_scope, n)
             /\ \A n \in NamesInScope :
                   get(OuterScope, n) = get(Front(parser.cur_scope), n)
             /\ Last(LastEmitted) = StoreIdent(parser.last.addr)
    /\ JustParsed("Assign")
          => /\ parser.cur_scope = parser.last.cur_scope
             /\ \E k \in 1..Len(parser.decls) :
                   /\ parser.decls[k].name = parser.last.name
                   /\ parser.decls[k].addr = parser.last.addr
                   /\ parser.decls[k].depth <= Len(parser.cur_scope)
                   /\ \A j \in (k + 1)..Len(parser.decls) :
                         parser.decls[j].name = parser.last.name
                         => parser.decls[j].depth > parser.decls[k].depth
                            \/ parser.last.name
                                  \notin DOMAIN parser.cur_scope[parser.decls[j].depth]
                            \/ parser.cur_scope[parser.decls[j].depth]
                                   [parser.last.name].addr # parser.decls[j].addr
             /\ Last(LastEmitted) = StoreIdent(parser.last.addr)
    /\ (JustParsed("}") /\ parser.last.name = "")
          => /\ parser.cur_scope = OuterScope
             /\ \A n \in NamesInScope :
                   get(parser.cur_scope, n) = get(OuterScope, n)
    /\ (parser.src \in { Programs.scopes, Programs.nested, Programs.arms }
           /\ status # "parsing")
          => status # "panic"
    /\ (parser.src = Programs.scopes /\ status = "done")
          => variables = << IntV(5), IntV(6), IntV(7), FloatV(6, 1), IntV(5) >>
    /\ (parser.src = Programs.nested /\ status = "done")
          => variables = << IntV(7), IntV(7), IntV(0), IntV(7), IntV(7) >>
    /\ (parser.src = Programs.arms /\ status = "done")
          => variables = << IntV(3), BoolV(FALSE), IntV(1), IntV(3) >>

\* The run of  p := 5; if true { p = 7; s := p; { p := p + 1; p = 0; }
\* t := p; } r := p;  has ended: the inner p got its own address, the
\* assignment p = 0 wrote it, and p = 7 wrote the outer one.
C28_Witness ==
    /\ parser.src = Programs.nested
    /\ status = "done"
    /\ variables[1] = IntV(7)
    /\ variables[3] = IntV(0)
    /\ variables[5] = IntV(7)

\* ------------------------------------------------------------- addresses
\* The declarations the last statement added (one for a declare-assign,
\* one per parameter for a function header).
NewDecls == Len(variables) - Len(parser.last.variables)

\* C29: addresses are allocated monotonically and never reused.  The n-th
\* allocation (declare-assign or function parameter, shadowing or not)
\* has address n - 1 and grows the variable store by exactly one slot,
\* leaving the slots before it as they were; neither a statement of the
\* parser nor a step of execute() shrinks the store, so every allocated
\* address is a valid index from its allocation onward.
C29_MonotonicAddresses ==
    /\ \A k \in 1..Len(parser.decls) :
          /\ parser.decls[k].addr = k - 1
          /\ parser.decls[k].addr < Len(variables)
    /\ status = "parsing" => Len(variables) = Len(parser.decls)
    /\ JustParsed("DeclAssign")
          => /\ parser.last.addr = Len(parser.last.variables)
             /\ variables = Append(parser.last.variables, BoolV(FALSE))
             /\ Last(parser.decls).name = parser.last.name
             /\ Last(parser.decls).addr = parser.last.addr
    /\ JustParsed("Func")
          => /\ NewDecls >= 0
             /\ SubSeq(variables, 1, Len(parser.last.variables))
                   = parser.last.variables
             /\ NewDecls = Cardinality({ k \in 1..Len(parser.decls) :
                                           parser.decls[k].func = parser.last.name })
             /\ \A k \in 1..Len(parser.decls) :
                   parser.decls[k].func = parser.last.name
                   => parser.decls[k].addr
                        = Len(parser.last.variables) + parser.decls[k].pos - 1
    /\ (status = "parsing"
           /\ parser.last.kind \notin { "none", "DeclAssign", "Func" })
          => variables = parser.last.variables
    /\ prev.kind # "init" => Len(variables) >= Len(prev.variables)
    /\ (parser.src # <<>> /\ status # "parsing")
          => Len(variables) >= Len(parser.decls)

\* The functions program (p declared in rand and again at top level, the
\* parameters test, a and b) has run to its end: nine declarations,
\* addresses 0..8, nine slots.
C29_Witness ==
    /\ parser.src = Programs.functions
    /\ status = "done"
    /\ Len(parser.decls) = 9
    /\ parser.decls[1].name = parser.decls[2].name
    /\ parser.decls[2].addr = 1
    /\ parser.decls[4].func = "huh"
    /\ parser.decls[4].addr = 3
    /\ Len(variables) = 9

\* ------------------------------------------------ duplicate declarations
\* The last statement was a := whose name the innermost table already held.
Redeclared ==
    /\ parser.last.kind = "DeclAssign"
    /\ parser.last.cur_scope # <<>>
    /\ parser.last.name \in DOMAIN Last(parser.last.cur_scope)

\* C30: declaring a name with := a second time in the same scope is
\* rejected at compile time: the statement is never accepted, and a source
\* holding one (p := 1; p := 2; r := p;) produces no program and runs
\* no instruction.
C30_DuplicateDeclaration ==
    /\ Redeclared => status = "panic"
    /\ parser.src \in { Programs.twice, Programs.twice_inner }
          => /\ status \in { "parsing", "panic" }
             /\ cycles = 0

\* ------------------------------------------------------- block boundaries
\* Parser::program has returned: the block table is the emitted program.
Produced == parser.last.kind = "Program"

ControlTransfer(instr) == instr[1] \in { "IfExpr", "Goto", "Call", "Return" }

\* C31: in every block produced by emission a control-transfer instruction
\* (IfExpr, Goto, Call, Return) is the last instruction of its block.
C31_TransfersLast ==
    Produced
    => \A b \in 1..Len(code) :
         \A i \in 1..(Len(code[b]) - 1) : ~ControlTransfer(code[b][i])

\* ------------------------------------------------------- stack neutrality
\* execute() is between two statements of the entry block: before or after
\* a call statement of the top level.
AtCallStatement ==
    /\ Produced /\ Running /\ InNormalMode
    /\ ip[1] = entrypoint /\ call_stack = <<>>
    /\ \E k \in 1..Len(parser.calls) :
          /\ parser.calls[k].depth = 1
          /\ ip[2] \in { parser.calls[k].first, parser.calls[k].next }

\* The instructions of  p.n1 = 7;  have been executed.
AfterAssignStruct ==
    /\ code = ProgAssignStruct
    /\ Running
    /\ ip = << 0, 6 >>

\* C32: every statement is stack-neutral.  The operand stack is empty
\* before and after a call statement of the top level and when execute()
\* ends at the end of the entry block, and the instructions of a
\* struct-field assignment leave it empty with the updated compound
\* stored in the owning variable.
C32_StackNeutral ==
    /\ AtCallStatement => eval_stack = <<>>
    /\ (Produced /\ status = "done" /\ prev.kind = "EntryEnd")
          => eval_stack = <<>>
    /\ AfterAssignStruct
          => /\ eval_stack = <<>>
             /\ variables[1]
                   = CompoundV(<< IntV(7), FloatV(6, 1), FloatV(0, 1) >>)
    /\ (code = ProgAssignStruct /\ status = "done") => eval_stack = <<>>

\* ----------------------------------------------------------- operand order
\* The statement the parser accepted last.
LastStmt == parser.src[Len(parser.src) - Len(parser.lexer)]

\* The last step executed the given instruction in normal mode on two
\* concrete operands of one tag.
Applied(kind, tag) ==
    /\ Running
    /\ prev.kind = kind
    /\ ~prev.evaluating_side_effects
    /\ Len(prev.eval_stack) >= 2
    /\ Operand(1)[1] = tag
    /\ Operand(2)[1] = tag

\* C33: operand order of binary operators.  The instructions of x op y
\* push y before x; BinaryExpr(op) on two integers or two floats pops the
\* left operand first and pushes left op right, and Concat pushes the
\* string popped first followed by the string popped second.
C33_OperandOrder ==
    /\ (JustParsed("DeclAssign") /\ LastStmt[3][1] = "Arith"
           /\ LastStmt[3][3][1] = "Const" /\ LastStmt[3][4][1] = "Const")
          => LastEmitted = << LoadConst(LastStmt[3][4][2]),
                              LoadConst(LastStmt[3][3][2]),
                              BinaryExpr(LastStmt[3][2]),
                              StoreIdent(parser.last.addr) >>
    /\ Applied("BinaryExpr", "Integer")
          => LET left == Operand(1)[2]
                 right == Operand(2)[2]
                 op == prev.instr[2]
             IN  /\ Len(eval_stack) = Len(prev.eval_stack) - 1
                 /\ op = "-" => Last(eval_stack) = IntV(left - right)
                 /\ op = "/" => /\ right # 0
                                /\ Last(eval_stack)[1] = "Integer"
                                /\ Last(eval_stack)[2] * right <= left
                                /\ left < (Last(eval_stack)[2] + 1) * right
                 /\ op = "<" => Last(eval_stack) = BoolV(left < right)
                 /\ op = "<=" => Last(eval_stack) = BoolV(left <= right)
                 /\ op = ">" => Last(eval_stack) = BoolV(left > right)
                 /\ op = ">=" => Last(eval_stack) = BoolV(left >= right)
    /\ Applied("BinaryExpr", "Float")
          => LET left == Operand(1)[2]
                 right == Operand(2)[2]
                 op == prev.instr[2]
                 l == left[1] * right[2]
                 r == right[1] * left[2]
             IN  /\ op = "<" => Last(eval_stack) = BoolV(l < r)
                 /\ op = "<=" => Last(eval_stack) = BoolV(l <= r)
                 /\ op = ">" => Last(eval_stack) = BoolV(l > r)
                 /\ op = ">=" => Last(eval_stack) = BoolV(l >= r)
    /\ Applied("Concat", "String")
          => eval_stack = Append(SubSeq(prev.eval_stack, 1,
                                        Len(prev.eval_stack) - 2),
                                 StrV(Operand(1)[2] \o Operand(2)[2]))
    /\ (parser.src = Programs.operands /\ status # "parsing")
          => status # "panic"
    /\ (parser.src = Programs.operands /\ status = "done")
          => variables = << IntV(5), IntV(3), BoolV(TRUE), BoolV(FALSE),
                            BoolV(TRUE), BoolV(FALSE), FloatV(11, 2),
                            FloatV(1, 4), BoolV(FALSE), IntV(1) >>

\* The run of  a := 7 - 2; b := 7 / 2; ... j := a - b - 1;  has ended.
C33_Witness ==
    /\ parser.src = Programs.operands
    /\ status = "done"
    /\ variables[1] = IntV(5)
    /\ variables[2] = IntV(3)
    /\ variables[10] = IntV(1)

\* ------------------------------------------- transfers in side-effect mode
\* The last step executed an instruction of the given kind, present in its
\* block, while the mode flag was set.
SweepExecuted(kind) ==
    /\ status = "running"
    /\ prev.evaluating_side_effects
    /\ prev.ip[2] < Len(Blk(prev.ip[1]))
    /\ prev.instr[1] = kind

\* Nothing but the work queue and the position has changed, and the
\* position is the next one in the same block.
OnlyEnqueued(labels) ==
    /\ blocks_to_eval = prev.blocks_to_eval \o labels
    /\ ip = << prev.ip[1], prev.ip[2] + 1 >>
    /\ evaluating_side_effects
    /\ eval_stack = prev.eval_stack
    /\ call_stack = prev.call_stack
    /\ variables = prev.variables

\* C34: in side-effect mode IfExpr, Goto and Call do not transfer control.
\* IfExpr pops nothing and adds both arms to the work queue, Goto and Call
\* add their target, an explicit Return is ignored, and execution goes on
\* with the next instruction of the block.
C34_SweepTransfers ==
    /\ SweepExecuted("IfExpr")
          => OnlyEnqueued(<< prev.instr[2], prev.instr[3] >>)
    /\ SweepExecuted("Goto") => OnlyEnqueued(<< prev.instr[2] >>)
    /\ SweepExecuted("Call") => OnlyEnqueued(<< prev.instr[2] >>)
    /\ SweepExecuted("Return") => OnlyEnqueued(<<>>)

\* A nested IfExpr with two blocks as arms was passed in side-effect mode
\* with a value on the operand stack.
C34_Witness ==
    /\ SweepExecuted("IfExpr")
    /\ prev.instr[2] # CONTINUE
    /\ prev.instr[3] # CONTINUE
    /\ prev.instr[2] # prev.instr[3]
    /\ prev.eval_stack # <<>>
    /\ eval_stack = prev.eval_stack
    /\ Len(blocks_to_eval) = Len(prev.blocks_to_eval) + 2
    /\ ip[1] = prev.ip[1]

\* ------------------------------------------------------------ early return
\* The transfers of a sequence that are Calls.
CallsIn(xf) == { k \in 1..Len(xf) : xf[k].instr[1] = "Call" }

\* The Call that entered the function being executed before the last step.
EnteredBy == prev.xfers[CHOOSE k \in CallsIn(prev.xfers) :
                           \A j \in CallsIn(prev.xfers) : j <= k]

\* The last step executed a Return instruction of the block table in
\* normal mode, inside a function entered by Call.
ReturnedInFunction ==
    /\ NormalExecuted
    /\ ~FellOff
    /\ prev.instr[1] = "Return"
    /\ CallsIn(prev.xfers) # {}

\* C35: a Return executed inside a function entered by Call resumes at the
\* instruction after that Call with the call stack as deep as before the
\* Call, also when the Return sits in a block entered through a taken
\* IfExpr arm or a Goto inside the function; the rest of the body is not
\* executed, so  func t() (int) { p := 1; if p == 1 { return 2; } return p; }
\* b := t();  ends with b = 2.
C35_EarlyReturn ==
    /\ ReturnedInFunction
          => /\ status = "running"
             /\ ip = After(EnteredBy.from)
             /\ Len(call_stack) = EnteredBy.depth
    /\ (code = ProgEarlyReturn /\ status = "done")
          => variables[1] = IntV(2) /\ eval_stack = <<>>
    /\ (parser.src = Programs.early_return /\ status = "done")
          => variables[2] = IntV(2) /\ eval_stack = <<>>

\* ------------------------------------------------------ instruction pointer
\* Every Goto and Call names a block of the table and every IfExpr arm
\* names a block or is CONTINUE.
LabelsValid ==
    \A b \in 1..Len(code) : \A i \in 1..Len(code[b]) :
        LET instr == code[b][i]
        IN  /\ instr[1] \in { "Goto", "Call" } => ValidBlock(instr[2])
            /\ instr[1] = "IfExpr"
                  => /\ instr[2] = CONTINUE \/ ValidBlock(instr[2])
                     /\ instr[3] = CONTINUE \/ ValidBlock(instr[3])

\* execute() has been entered.
Executing == status # "parsing" /\ code # <<>>

\* C36: with valid labels the instruction pointer always designates a
\* block of the table, and no fetch fails, in particular after IfExpr has
\* popped Waiting with CONTINUE as its if_true arm.
C36_ValidPointer ==
    (Executing /\ LabelsValid)
    => /\ ValidBlock(ip[1])
       /\ prev.kind # "FetchOutOfRange"

\* ------------------------------------------------------ stacks in a sweep
\* C37: a side-effect sweep leaves the operand stack and the call stack
\* untouched.  While the mode flag is set the operand stack is as the
\* triggering IfExpr left it after popping Waiting and the call stack is
\* the one before that IfExpr plus its continuation; the step that leaves
\* the mode pops exactly that continuation, so that afterwards both stacks
\* are as they were right after the pop of the Waiting operand and
\* execution resumes after the IfExpr.
C37_SweepStacks ==
    /\ (evaluating_side_effects /\ status # "parsing")
          => /\ eval_stack = sweep.eval_stack
             /\ call_stack = Append(sweep.call_stack, sweep.at)
    /\ (prev.evaluating_side_effects /\ evaluating_side_effects)
          => /\ eval_stack = prev.eval_stack
             /\ call_stack = prev.call_stack
    /\ SweepExited
          => /\ eval_stack = sweep.eval_stack
             /\ eval_stack = prev.eval_stack
             /\ Last(prev.call_stack) = sweep.at
             /\ call_stack = Front(prev.call_stack)
             /\ call_stack = sweep.call_stack
             /\ ip = After(sweep.at)

\* A sweep entered inside a called block, with a value pending on the
\* operand stack, has ended.
C37_Witness ==
    /\ SweepExited
    /\ sweep.eval_stack # <<>>
    /\ sweep.call_stack # <<>>
    /\ Len(sweep.entered) >= 2
    /\ eval_stack = sweep.eval_stack
    /\ call_stack = sweep.call_stack

\* ---------------------------------------------------------- mode and queue
\* C38: in normal mode the work queue is empty, and when execute() has
\* returned (end of the entry block, Return on an empty call stack, step
\* ceiling) the mode flag is cleared and the work queue is empty.
C38_ModeQueue ==
    /\ (Executing /\ ~evaluating_side_effects) => blocks_to_eval = <<>>
    /\ status = "done"
          => /\ ~evaluating_side_effects
             /\ blocks_to_eval = <<>>

\* ------------------------------------------------- Waiting from responses
\* json is an object with the entry "$waiting": true.
HasMarkerEntry(json) ==
    /\ json[1] = "map"
    /\ \E k \in 1..Len(json[2]) :
          json[2][k] = << "$waiting", JsonBool(TRUE) >>

\* Wherever val is Waiting the JSON it was read from is an object with the
\* entry "$waiting": true: the value itself, or an element of an array.
RECURSIVE WaitingFromMarker(_, _)
WaitingFromMarker(json, val) ==
    IF is_waiting(val) THEN HasMarkerEntry(json)
    ELSE IF is_compound(val) /\ json[1] = "seq"
    THEN \A k \in 1..Len(val[2]) : WaitingFromMarker(json[2][k], val[2][k])
    ELSE TRUE

\* C39: deserialization produces Waiting only for the Waiting marker.
\* Against every expected type a JSON object becomes Waiting only if it
\* has the key "$waiting" with the value true; an empty object or one
\* whose "$waiting" entry is false does not.
C39_WaitingOnlyFromMarker ==
    ( /\ RespondCalled
      /\ status = "running"
      /\ RespBody[1] = "seq" )
    => \A k \in 1..Len(RespReturned) :
          WaitingFromMarker(RespBody[2][k], RespReturned[k])

====
